---- MODULE Spec2Model ----
(***************************************************************************)
(* The defai_estate program (archive_backups/lib_original.rs): one estate  *)
(* account with its beneficiary list, the claim records and the recovery   *)
(* record derived from it, the lamport and token ledgers the claims move,  *)
(* and the host clock.  Every instruction is one atomic transaction: its   *)
(* account constraints (the #[derive(Accounts)] structs) are checked       *)
(* first, then the handler runs; any error rolls the whole state back.     *)
(* Rent and fee payments made by the payer of an `init` are the host's     *)
(* bookkeeping and are not part of the ledgers below.                      *)
(* The joint-account extension (lib_with_joint_account.rs) and the app     *)
(* factory (lib_backup.rs) have their own accounts, sections and           *)
(* specifications (SpecJoint, SpecTimer, SpecApps).                        *)
(***************************************************************************)
EXTENDS Integers, Sequences, FiniteSets, TLC

VARIABLES
    now,              \* Clock::get()?.unix_timestamp
    overflow_checks,  \* the build: TRUE when integer overflow panics, FALSE when it wraps
    global_counter,   \* the GlobalCounter account
    estate,           \* the Estate account
    estate_seeds,     \* the seeds the estate account's address was derived from
    lamports,         \* native balance of the estate account and of each wallet
    tokens,           \* token balance per holder and mint (associated token accounts)
    claim_records,    \* the ClaimRecord account of each beneficiary key
    recovery,         \* the Recovery account of the estate
    rwas,             \* the RWA accounts of the estate, by the number in their seeds
    last,             \* the last transaction that committed: instruction, signer and
                      \* arguments (a failed transaction rolls back and leaves no trace)
    phase_claims,     \* history: indices claimed successfully in the current claim phase
    check_ins,        \* history: number of successful check-ins
    deposits,         \* history: number of deposits made into the estate
    estate_numbers,   \* history: the estate_number of each estate created, in order
    joint_account,    \* the JointAccount account of the estate (lib_with_joint_account.rs)
    joint_account_seeds, \* the seeds the joint account's address was derived from
    has_joint_account,   \* estate.has_joint_account
    joint_tokens,     \* token balance of each wallet and of the joint account's vault
    app_factory,      \* the AppFactory account (lib_backup.rs)
    app_registrations,   \* the AppRegistration account of each app_id
    user_app_access,  \* the UserAppAccess accounts: pairs <<user, app_id>>
    defai_tokens,     \* DEFAI balance of each wallet
    sft_tokens        \* SFT balance of each wallet, per app_id

vars == <<now, overflow_checks, global_counter, estate, estate_seeds, lamports, tokens,
          claim_records, recovery, rwas, last, phase_claims, check_ins, deposits,
          estate_numbers, joint_account, joint_account_seeds, has_joint_account,
          joint_tokens, app_factory, app_registrations, user_app_access, defai_tokens,
          sft_tokens>>

\* The accounts of the joint-account extension and of the app factory.
jointVars == <<joint_account, joint_account_seeds, has_joint_account, joint_tokens>>
appVars == <<app_factory, app_registrations, user_app_access, defai_tokens, sft_tokens>>

\* ---------------------------------------------------------------- constants
DAY == 24 * 60 * 60
MIN_INACTIVITY_PERIOD == 24 * 60 * 60
MAX_INACTIVITY_YEARS == 300
MIN_GRACE_PERIOD == 24 * 60 * 60
MAX_GRACE_PERIOD == 90 * 24 * 60 * 60
MAX_BENEFICIARIES == 10
MIN_RENT_BALANCE == 890880
RECOVERY_DWELL == 30 * 24 * 60 * 60
RECOVERY_DELAY == 7 * 24 * 60 * 60
MAX_RECORDED_CLAIMS == 10
U8_MODULUS == 256
MAX_REASON_LEN == 256
MAX_RWA_TEXT == 32 + 64 + 256 + 32 + 256

\* ---------------------------------------------------------------- bounds
MaxListLen == 2
MaxCheckIns == 1
MaxDeposits == 2
MaxRwas == 1
MaxEstates == 3
MaxRwaRecords == 2
MaxWallet == 2
MaxApps == 2
MaxSupply == 2
MaxWalletDefai == 20

Keys == {"owner", "alice", "bob", "carol"}
Holders == Keys \cup {"estate"}
Mints == {"m1", "m2"}
NoKey == "none"

\* ---------------------------------------------------------------- account data
Beneficiary(a, s, c) == [address |-> a, share_percentage |-> s, claimed |-> c]

\* Fields no instruction reads after writing them (the hashes, estate_id,
\* creation_time, estate_value, claim_time, reason) are left out.
NoEstate ==
    [exists |-> FALSE, owner |-> NoKey, last_active |-> 0, inactivity_period |-> 0,
     grace_period |-> 0, beneficiaries |-> <<>>, total_beneficiaries |-> 0,
     is_locked |-> FALSE, is_claimable |-> FALSE,
     total_rwas |-> 0, estate_number |-> 0, total_claims |-> 0]

NoClaimRecord ==
    [exists |-> FALSE, beneficiary |-> NoKey, sol_amount |-> 0,
     share_percentage |-> 0, tokens_claimed |-> <<>>, nfts_claimed |-> <<>>]

NoRecovery ==
    [exists |-> FALSE, initiator |-> NoKey, initiation_time |-> 0, execution_time |-> 0,
     is_executed |-> FALSE]

\* The strings of an RWA are not read by any instruction and are left out.
NoRWA == [exists |-> FALSE, is_active |-> FALSE, rwa_number |-> 0, current_owner |-> NoKey]

\* The numbers an RWA account's address can be derived from.
RwaNumbers == 0..MaxRwaRecords

NoIndex == 0 - 1
NoMint == "none"

\* A committed transaction: the instruction, its signer, the beneficiary index and
\* the mint it named, and the amount (lamports or tokens) it moved.
Last(op, by, index, mint, amount) ==
    [op |-> op, by |-> by, index |-> index, mint |-> mint, amount |-> amount]

NoCounter == [exists |-> FALSE, count |-> 0]

NoSeeds == [owner |-> NoKey, number |-> 0]

\* The whole program state a transaction reads and writes.
St ==
    [global_counter |-> global_counter, estate |-> estate, estate_seeds |-> estate_seeds,
     lamports |-> lamports, tokens |-> tokens, claim_records |-> claim_records,
     recovery |-> recovery, rwas |-> rwas]

\* A failed transaction: the error, and the state rolled back.
Fail(e) == [err |-> e, st |-> St]
Done(s) == [err |-> "Ok", st |-> s]

\* ---------------------------------------------------------------- helpers
RECURSIVE SumShares(_)
SumShares(list) ==
    IF list = <<>> THEN 0 ELSE Head(list).share_percentage + SumShares(Tail(list))

\* beneficiaries.iter().map(|b| b.share_percentage).sum() into a u8: the sum
\* overflows when it exceeds 255; the build decides between a panic and wrapping.
TotalPercentage(list) ==
    [panic |-> overflow_checks /\ SumShares(list) >= U8_MODULUS,
     value |-> SumShares(list) % U8_MODULUS]

\* inactivity_period <= MAX_INACTIVITY_PERIOD (300 * 365 days), by whole days
WithinMaxInactivity(p) ==
    \/ p \div DAY < MAX_INACTIVITY_YEARS * 365
    \/ p \div DAY = MAX_INACTIVITY_YEARS * 365 /\ p % DAY = 0

GraceEnds(e) == (e.last_active + e.inactivity_period) + e.grace_period

ClaimableDuration(e) == now - e.last_active - e.inactivity_period - e.grace_period

SaturatingSub(a, b) == IF a >= b THEN a - b ELSE 0

\* (balance as u128).checked_mul(share as u128).unwrap().checked_div(100).unwrap()
ShareOf(balance, share) == (balance * share) \div 100

SolShare(balance, share) == ShareOf(SaturatingSub(balance, MIN_RENT_BALANCE), share)

SetClaimed(list, i) == [list EXCEPT ![i + 1].claimed = TRUE]

Mentions(seq, x) == \E k \in 1..Len(seq) : seq[k] = x

\* Mutant: the duplicate check never finds the mint.
MentionsMintNever(seq, m) == FALSE

MentionsMint(seq, m) == \E k \in 1..Len(seq) : seq[k].mint = m

\* has_one = owner on the estate account
OwnerConstraint(signer) ==
    IF ~estate.exists THEN "AccountNotInitialized"
    ELSE IF signer # estate.owner THEN "ConstraintHasOne"
    ELSE "Ok"

\* seeds = [ESTATE_SEED, estate.owner, estate.estate_number] on the estate account
SeedsConstraint ==
    IF ~estate.exists THEN "AccountNotInitialized"
    ELSE IF estate_seeds # [owner |-> estate.owner, number |-> estate.estate_number]
    THEN "ConstraintSeeds"
    ELSE "Ok"

\* has_one = beneficiary, has_one = estate on a claim record passed by the signer
ClaimRecordConstraint(signer, rec) ==
    IF ~claim_records[rec].exists THEN "AccountNotInitialized"
    ELSE IF claim_records[rec].beneficiary # signer THEN "UnauthorizedBeneficiary"
    ELSE "Ok"

\* ---------------------------------------------------------------- instructions
initialize_global_counter(signer) ==
    IF global_counter.exists THEN Fail("AccountAlreadyInUse")
    ELSE Done([St EXCEPT !.global_counter = [exists |-> TRUE, count |-> 0]])

\* Mutant: the counter is not incremented.
create_estate_reusing_number(signer, inactivity_period, grace_period, funding) ==
    IF ~global_counter.exists THEN Fail("AccountNotInitialized")
    ELSE IF ~(inactivity_period >= MIN_INACTIVITY_PERIOD /\ WithinMaxInactivity(inactivity_period))
    THEN Fail("InvalidInactivityPeriod")
    ELSE IF ~(grace_period >= MIN_GRACE_PERIOD /\ grace_period <= MAX_GRACE_PERIOD)
    THEN Fail("InvalidGracePeriod")
    ELSE Done([St EXCEPT
        !.estate = [exists |-> TRUE, owner |-> signer, last_active |-> now,
                    inactivity_period |-> inactivity_period, grace_period |-> grace_period,
                    beneficiaries |-> <<>>, total_beneficiaries |-> 0,
                    is_locked |-> FALSE, is_claimable |-> FALSE,
                    total_rwas |-> 0, estate_number |-> global_counter.count,
                    total_claims |-> 0],
        !.estate_seeds = [owner |-> signer, number |-> global_counter.count],
        !.lamports = [lamports EXCEPT !["estate"] = funding]])

create_estate(signer, inactivity_period, grace_period, funding) ==
    IF ~global_counter.exists THEN Fail("AccountNotInitialized")
    ELSE IF ~(inactivity_period >= MIN_INACTIVITY_PERIOD /\ WithinMaxInactivity(inactivity_period))
    THEN Fail("InvalidInactivityPeriod")
    ELSE IF ~(grace_period >= MIN_GRACE_PERIOD /\ grace_period <= MAX_GRACE_PERIOD)
    THEN Fail("InvalidGracePeriod")
    ELSE Done([St EXCEPT
        !.estate = [exists |-> TRUE, owner |-> signer, last_active |-> now,
                    inactivity_period |-> inactivity_period, grace_period |-> grace_period,
                    beneficiaries |-> <<>>, total_beneficiaries |-> 0,
                    is_locked |-> FALSE, is_claimable |-> FALSE,
                    total_rwas |-> 0, estate_number |-> global_counter.count,
                    total_claims |-> 0],
        !.estate_seeds = [owner |-> signer, number |-> global_counter.count],
        !.lamports = [lamports EXCEPT !["estate"] = funding],
        !.global_counter = [global_counter EXCEPT !.count = @ + 1]])

\* Mutant: the claimable flag is left as it is.
check_in_keeping_claimable(signer) ==
    IF OwnerConstraint(signer) # "Ok" THEN Fail(OwnerConstraint(signer))
    ELSE IF estate.is_locked THEN Fail("EstateLocked")
    ELSE IF signer # estate.owner THEN Fail("UnauthorizedAccess")
    ELSE Done([St EXCEPT !.estate = [estate EXCEPT !.last_active = now]])

\* Mutant: the lock is not checked.
check_in_ignoring_lock(signer) ==
    IF OwnerConstraint(signer) # "Ok" THEN Fail(OwnerConstraint(signer))
    ELSE IF signer # estate.owner THEN Fail("UnauthorizedAccess")
    ELSE Done([St EXCEPT !.estate = [estate EXCEPT !.last_active = now,
                                                   !.is_claimable = FALSE]])

check_in(signer) ==
    IF OwnerConstraint(signer) # "Ok" THEN Fail(OwnerConstraint(signer))
    ELSE IF estate.is_locked THEN Fail("EstateLocked")
    ELSE IF signer # estate.owner THEN Fail("UnauthorizedAccess")
    ELSE Done([St EXCEPT !.estate = [estate EXCEPT !.last_active = now,
                                                   !.is_claimable = FALSE]])

update_beneficiaries(signer, beneficiaries) ==
    IF OwnerConstraint(signer) # "Ok" THEN Fail(OwnerConstraint(signer))
    ELSE IF estate.is_locked THEN Fail("EstateLocked")
    ELSE IF estate.is_claimable THEN Fail("EstateClaimable")
    ELSE IF signer # estate.owner THEN Fail("UnauthorizedAccess")
    ELSE IF ~(Len(beneficiaries) <= MAX_BENEFICIARIES) THEN Fail("TooManyBeneficiaries")
    ELSE IF TotalPercentage(beneficiaries).panic THEN Fail("Panic")
    ELSE IF TotalPercentage(beneficiaries).value # 100 THEN Fail("InvalidBeneficiaryShares")
    ELSE Done([St EXCEPT !.estate = [estate EXCEPT
                    !.beneficiaries = beneficiaries,
                    !.total_beneficiaries = Len(beneficiaries)]])

\* text stands for the total byte length of the five strings of the RWA.
create_rwa(signer, text) ==
    IF OwnerConstraint(signer) # "Ok" THEN Fail(OwnerConstraint(signer))
    ELSE IF rwas[estate.total_rwas].exists THEN Fail("AccountAlreadyInUse")
    ELSE IF estate.is_locked THEN Fail("EstateLocked")
    ELSE IF estate.is_claimable THEN Fail("EstateClaimable")
    ELSE IF signer # estate.owner THEN Fail("UnauthorizedAccess")
    ELSE IF text > MAX_RWA_TEXT THEN Fail("AccountDidNotSerialize")
    ELSE Done([St EXCEPT
        !.rwas = [rwas EXCEPT ![estate.total_rwas] =
            [exists |-> TRUE, is_active |-> TRUE, rwa_number |-> estate.total_rwas,
             current_owner |-> estate.owner]],
        !.estate = [estate EXCEPT !.total_rwas = @ + 1]])

\* Mutant: an inactive RWA can be deleted again.
delete_rwa_repeatable(signer, rwa) ==
    IF OwnerConstraint(signer) # "Ok" THEN Fail(OwnerConstraint(signer))
    ELSE IF ~rwas[rwa].exists THEN Fail("AccountNotInitialized")
    ELSE IF estate.is_locked THEN Fail("EstateLocked")
    ELSE IF estate.is_claimable THEN Fail("EstateClaimable")
    ELSE IF signer # estate.owner THEN Fail("UnauthorizedAccess")
    ELSE Done([St EXCEPT !.rwas = [rwas EXCEPT ![rwa].is_active = FALSE]])

\* Mutant: the lock is not checked.
delete_rwa_ignoring_lock(signer, rwa) ==
    IF OwnerConstraint(signer) # "Ok" THEN Fail(OwnerConstraint(signer))
    ELSE IF ~rwas[rwa].exists THEN Fail("AccountNotInitialized")
    ELSE IF estate.is_claimable THEN Fail("EstateClaimable")
    ELSE IF signer # estate.owner THEN Fail("UnauthorizedAccess")
    ELSE IF ~rwas[rwa].is_active THEN Fail("RWAAlreadyDeleted")
    ELSE Done([St EXCEPT !.rwas = [rwas EXCEPT ![rwa].is_active = FALSE]])

delete_rwa(signer, rwa) ==
    IF OwnerConstraint(signer) # "Ok" THEN Fail(OwnerConstraint(signer))
    ELSE IF ~rwas[rwa].exists THEN Fail("AccountNotInitialized")
    ELSE IF estate.is_locked THEN Fail("EstateLocked")
    ELSE IF estate.is_claimable THEN Fail("EstateClaimable")
    ELSE IF signer # estate.owner THEN Fail("UnauthorizedAccess")
    ELSE IF ~rwas[rwa].is_active THEN Fail("RWAAlreadyDeleted")
    ELSE Done([St EXCEPT !.rwas = [rwas EXCEPT ![rwa].is_active = FALSE]])

\* Mutant: the boundary instant is accepted (>= in place of >).
trigger_inheritance_at_boundary(signer) ==
    IF ~estate.exists THEN Fail("AccountNotInitialized")
    ELSE IF estate.is_locked THEN Fail("EstateLocked")
    ELSE IF estate.is_claimable THEN Fail("AlreadyClaimable")
    ELSE IF ~(now >= GraceEnds(estate)) THEN Fail("NotYetClaimable")
    ELSE Done([St EXCEPT !.estate = [estate EXCEPT !.is_claimable = TRUE]])

trigger_inheritance(signer) ==
    IF ~estate.exists THEN Fail("AccountNotInitialized")
    ELSE IF estate.is_locked THEN Fail("EstateLocked")
    ELSE IF estate.is_claimable THEN Fail("AlreadyClaimable")
    ELSE IF ~(now > GraceEnds(estate)) THEN Fail("NotYetClaimable")
    ELSE Done([St EXCEPT !.estate = [estate EXCEPT !.is_claimable = TRUE]])

claim_inheritance(signer, beneficiary_index) ==
    IF ~estate.exists THEN Fail("AccountNotInitialized")
    ELSE IF ~estate.is_claimable THEN Fail("NotClaimable")
    ELSE IF ~(beneficiary_index < estate.total_beneficiaries)
    THEN Fail("InvalidBeneficiaryIndex")
    ELSE IF estate.beneficiaries[beneficiary_index + 1].address # signer
    THEN Fail("UnauthorizedBeneficiary")
    ELSE IF estate.beneficiaries[beneficiary_index + 1].claimed THEN Fail("AlreadyClaimed")
    ELSE Done([St EXCEPT !.estate = [estate EXCEPT
                    !.beneficiaries = SetClaimed(estate.beneficiaries, beneficiary_index)]])

\* Mutant: the signer need not be the entry's address.
claim_inheritance_v2_for_anyone(signer, beneficiary_index) ==
    IF ~estate.exists THEN Fail("AccountNotInitialized")
    ELSE IF claim_records[signer].exists THEN Fail("AccountAlreadyInUse")
    ELSE IF ~estate.is_claimable THEN Fail("NotClaimable")
    ELSE IF ~(beneficiary_index < estate.total_beneficiaries)
    THEN Fail("InvalidBeneficiaryIndex")
    ELSE IF estate.beneficiaries[beneficiary_index + 1].claimed THEN Fail("AlreadyClaimed")
    ELSE
    LET share_percentage == estate.beneficiaries[beneficiary_index + 1].share_percentage
        estate_balance == lamports["estate"]
        sol_share == SolShare(estate_balance, share_percentage)
    IN  IF sol_share > estate_balance
        THEN Fail(IF overflow_checks THEN "Panic" ELSE "UnbalancedInstruction")
        ELSE IF estate.total_claims + 1 >= U8_MODULUS /\ overflow_checks THEN Fail("Panic")
        ELSE Done([St EXCEPT
            !.lamports = [lamports EXCEPT !["estate"] = @ - sol_share,
                                          ![signer] = @ + sol_share],
            !.claim_records = [claim_records EXCEPT ![signer] =
                [exists |-> TRUE, beneficiary |-> signer,
                 sol_amount |-> sol_share, share_percentage |-> share_percentage,
                 tokens_claimed |-> <<>>, nfts_claimed |-> <<>>]],
            !.estate = [estate EXCEPT
                !.beneficiaries = SetClaimed(estate.beneficiaries, beneficiary_index),
                !.total_claims = (@ + 1) % U8_MODULUS]])

\* Mutant: the claimed flag is not checked.
claim_inheritance_v2_unguarded(signer, beneficiary_index) ==
    IF ~estate.exists THEN Fail("AccountNotInitialized")
    ELSE IF claim_records[signer].exists THEN Fail("AccountAlreadyInUse")
    ELSE IF ~estate.is_claimable THEN Fail("NotClaimable")
    ELSE IF ~(beneficiary_index < estate.total_beneficiaries)
    THEN Fail("InvalidBeneficiaryIndex")
    ELSE IF estate.beneficiaries[beneficiary_index + 1].address # signer
    THEN Fail("UnauthorizedBeneficiary")
    ELSE
    LET share_percentage == estate.beneficiaries[beneficiary_index + 1].share_percentage
        estate_balance == lamports["estate"]
        sol_share == SolShare(estate_balance, share_percentage)
    IN  IF sol_share > estate_balance
        THEN Fail(IF overflow_checks THEN "Panic" ELSE "UnbalancedInstruction")
        ELSE IF estate.total_claims + 1 >= U8_MODULUS /\ overflow_checks THEN Fail("Panic")
        ELSE Done([St EXCEPT
            !.lamports = [lamports EXCEPT !["estate"] = @ - sol_share,
                                          ![signer] = @ + sol_share],
            !.claim_records = [claim_records EXCEPT ![signer] =
                [exists |-> TRUE, beneficiary |-> signer,
                 sol_amount |-> sol_share, share_percentage |-> share_percentage,
                 tokens_claimed |-> <<>>, nfts_claimed |-> <<>>]],
            !.estate = [estate EXCEPT
                !.beneficiaries = SetClaimed(estate.beneficiaries, beneficiary_index),
                !.total_claims = (@ + 1) % U8_MODULUS]])

claim_inheritance_v2(signer, beneficiary_index) ==
    IF ~estate.exists THEN Fail("AccountNotInitialized")
    ELSE IF claim_records[signer].exists THEN Fail("AccountAlreadyInUse")
    ELSE IF ~estate.is_claimable THEN Fail("NotClaimable")
    ELSE IF ~(beneficiary_index < estate.total_beneficiaries)
    THEN Fail("InvalidBeneficiaryIndex")
    ELSE IF estate.beneficiaries[beneficiary_index + 1].address # signer
    THEN Fail("UnauthorizedBeneficiary")
    ELSE IF estate.beneficiaries[beneficiary_index + 1].claimed THEN Fail("AlreadyClaimed")
    ELSE
    LET share_percentage == estate.beneficiaries[beneficiary_index + 1].share_percentage
        estate_balance == lamports["estate"]
        sol_share == SolShare(estate_balance, share_percentage)
    IN  IF sol_share > estate_balance
        THEN Fail(IF overflow_checks THEN "Panic" ELSE "UnbalancedInstruction")
        ELSE IF estate.total_claims + 1 >= U8_MODULUS /\ overflow_checks THEN Fail("Panic")
        ELSE Done([St EXCEPT
            !.lamports = [lamports EXCEPT !["estate"] = @ - sol_share,
                                          ![signer] = @ + sol_share],
            !.claim_records = [claim_records EXCEPT ![signer] =
                [exists |-> TRUE, beneficiary |-> signer,
                 sol_amount |-> sol_share, share_percentage |-> share_percentage,
                 tokens_claimed |-> <<>>, nfts_claimed |-> <<>>]],
            !.estate = [estate EXCEPT
                !.beneficiaries = SetClaimed(estate.beneficiaries, beneficiary_index),
                !.total_claims = (@ + 1) % U8_MODULUS]])

\* Mutant: the claimed flag is not required.
claim_token_before_inheritance(signer, rec, beneficiary_index, token_mint) ==
    IF SeedsConstraint # "Ok" THEN Fail(SeedsConstraint)
    ELSE IF ClaimRecordConstraint(signer, rec) # "Ok"
    THEN Fail(ClaimRecordConstraint(signer, rec))
    ELSE IF ~estate.is_claimable THEN Fail("NotClaimable")
    ELSE IF ~(beneficiary_index < estate.total_beneficiaries)
    THEN Fail("InvalidBeneficiaryIndex")
    ELSE IF estate.beneficiaries[beneficiary_index + 1].address # signer
    THEN Fail("UnauthorizedBeneficiary")
    ELSE IF MentionsMint(claim_records[rec].tokens_claimed, token_mint)
    THEN Fail("TokenAlreadyClaimed")
    ELSE
    LET estate_token_balance == tokens["estate"][token_mint]
        token_share == ShareOf(estate_token_balance,
                               estate.beneficiaries[beneficiary_index + 1].share_percentage)
    IN  IF ~(token_share > 0) THEN Done(St)
        ELSE IF token_share > estate_token_balance THEN Fail("InsufficientFunds")
        ELSE IF Len(claim_records[rec].tokens_claimed) >= MAX_RECORDED_CLAIMS
        THEN Fail("AccountDidNotSerialize")
        ELSE Done([St EXCEPT
            !.tokens = [tokens EXCEPT !["estate"][token_mint] = @ - token_share,
                                      ![signer][token_mint] = @ + token_share],
            !.claim_records = [claim_records EXCEPT ![rec].tokens_claimed =
                Append(@, [mint |-> token_mint, amount |-> token_share])]])

\* The estate's and the beneficiary's associated token accounts exist for every
\* mint (init_if_needed on the beneficiary's side); a balance may be 0.
claim_token(signer, rec, beneficiary_index, token_mint) ==
    IF SeedsConstraint # "Ok" THEN Fail(SeedsConstraint)
    ELSE IF ClaimRecordConstraint(signer, rec) # "Ok"
    THEN Fail(ClaimRecordConstraint(signer, rec))
    ELSE IF ~estate.is_claimable THEN Fail("NotClaimable")
    ELSE IF ~(beneficiary_index < estate.total_beneficiaries)
    THEN Fail("InvalidBeneficiaryIndex")
    ELSE IF estate.beneficiaries[beneficiary_index + 1].address # signer
    THEN Fail("UnauthorizedBeneficiary")
    ELSE IF ~estate.beneficiaries[beneficiary_index + 1].claimed
    THEN Fail("MustClaimInheritanceFirst")
    ELSE IF MentionsMint(claim_records[rec].tokens_claimed, token_mint)
    THEN Fail("TokenAlreadyClaimed")
    ELSE
    LET estate_token_balance == tokens["estate"][token_mint]
        token_share == ShareOf(estate_token_balance,
                               estate.beneficiaries[beneficiary_index + 1].share_percentage)
    IN  IF ~(token_share > 0) THEN Done(St)
        ELSE IF token_share > estate_token_balance THEN Fail("InsufficientFunds")
        ELSE IF Len(claim_records[rec].tokens_claimed) >= MAX_RECORDED_CLAIMS
        THEN Fail("AccountDidNotSerialize")
        ELSE Done([St EXCEPT
            !.tokens = [tokens EXCEPT !["estate"][token_mint] = @ - token_share,
                                      ![signer][token_mint] = @ + token_share],
            !.claim_records = [claim_records EXCEPT ![rec].tokens_claimed =
                Append(@, [mint |-> token_mint, amount |-> token_share])]])

\* Mutant: the estate's quantity of the NFT is not checked.
claim_nft_any_amount(signer, rec, beneficiary_index, nft_mint) ==
    IF SeedsConstraint # "Ok" THEN Fail(SeedsConstraint)
    ELSE IF ClaimRecordConstraint(signer, rec) # "Ok"
    THEN Fail(ClaimRecordConstraint(signer, rec))
    ELSE IF ~estate.is_claimable THEN Fail("NotClaimable")
    ELSE IF ~(beneficiary_index < estate.total_beneficiaries)
    THEN Fail("InvalidBeneficiaryIndex")
    ELSE IF estate.beneficiaries[beneficiary_index + 1].address # signer
    THEN Fail("UnauthorizedBeneficiary")
    ELSE IF ~estate.beneficiaries[beneficiary_index + 1].claimed
    THEN Fail("MustClaimInheritanceFirst")
    ELSE IF Mentions(claim_records[rec].nfts_claimed, nft_mint)
    THEN Fail("NFTAlreadyClaimed")
    ELSE IF Len(claim_records[rec].nfts_claimed) >= MAX_RECORDED_CLAIMS
    THEN Fail("AccountDidNotSerialize")
    ELSE Done([St EXCEPT
        !.tokens = [tokens EXCEPT !["estate"][nft_mint] = @ - 1,
                                  ![signer][nft_mint] = @ + 1],
        !.claim_records = [claim_records EXCEPT ![rec].nfts_claimed =
            Append(@, nft_mint)]])

claim_nft(signer, rec, beneficiary_index, nft_mint) ==
    IF SeedsConstraint # "Ok" THEN Fail(SeedsConstraint)
    ELSE IF ClaimRecordConstraint(signer, rec) # "Ok"
    THEN Fail(ClaimRecordConstraint(signer, rec))
    ELSE IF ~estate.is_claimable THEN Fail("NotClaimable")
    ELSE IF ~(beneficiary_index < estate.total_beneficiaries)
    THEN Fail("InvalidBeneficiaryIndex")
    ELSE IF estate.beneficiaries[beneficiary_index + 1].address # signer
    THEN Fail("UnauthorizedBeneficiary")
    ELSE IF ~estate.beneficiaries[beneficiary_index + 1].claimed
    THEN Fail("MustClaimInheritanceFirst")
    ELSE IF Mentions(claim_records[rec].nfts_claimed, nft_mint)
    THEN Fail("NFTAlreadyClaimed")
    ELSE IF tokens["estate"][nft_mint] # 1 THEN Fail("InvalidNFTAmount")
    ELSE IF Len(claim_records[rec].nfts_claimed) >= MAX_RECORDED_CLAIMS
    THEN Fail("AccountDidNotSerialize")
    ELSE Done([St EXCEPT
        !.tokens = [tokens EXCEPT !["estate"][nft_mint] = @ - 1,
                                  ![signer][nft_mint] = @ + 1],
        !.claim_records = [claim_records EXCEPT ![rec].nfts_claimed =
            Append(@, nft_mint)]])

\* Mutant: the claimable flag is not checked.
transfer_rwa_ownership_unclaimable(signer, rec, rwa, rwa_number) ==
    IF ClaimRecordConstraint(signer, rec) # "Ok"
    THEN Fail(ClaimRecordConstraint(signer, rec))
    ELSE IF ~estate.exists THEN Fail("AccountNotInitialized")
    ELSE IF ~rwas[rwa].exists THEN Fail("AccountNotInitialized")
    ELSE IF claim_records[rec].beneficiary # signer THEN Fail("UnauthorizedBeneficiary")
    ELSE IF rwas[rwa].rwa_number # rwa_number THEN Fail("InvalidRWA")
    ELSE IF ~rwas[rwa].is_active THEN Fail("RWAAlreadyDeleted")
    ELSE Done([St EXCEPT !.rwas = [rwas EXCEPT ![rwa].current_owner = signer]])

\* rwa is the RWA account passed, rwa_number the instruction's argument.
transfer_rwa_ownership(signer, rec, rwa, rwa_number) ==
    IF ClaimRecordConstraint(signer, rec) # "Ok"
    THEN Fail(ClaimRecordConstraint(signer, rec))
    ELSE IF ~estate.exists THEN Fail("AccountNotInitialized")
    ELSE IF ~rwas[rwa].exists THEN Fail("AccountNotInitialized")
    ELSE IF ~estate.is_claimable THEN Fail("NotClaimable")
    ELSE IF claim_records[rec].beneficiary # signer THEN Fail("UnauthorizedBeneficiary")
    ELSE IF rwas[rwa].rwa_number # rwa_number THEN Fail("InvalidRWA")
    ELSE IF ~rwas[rwa].is_active THEN Fail("RWAAlreadyDeleted")
    ELSE Done([St EXCEPT !.rwas = [rwas EXCEPT ![rwa].current_owner = signer]])

\* Mutant: the claim count is not compared.
close_estate_uncounted(signer) ==
    IF ~estate.exists THEN Fail("AccountNotInitialized")
    ELSE IF ~estate.is_claimable THEN Fail("NotClaimable")
    ELSE Done([St EXCEPT
        !.estate = NoEstate,
        !.lamports = [lamports EXCEPT !["estate"] = 0,
                                      ![signer] = @ + lamports["estate"]]])

\* close = authority: the account is released and its lamports go to the signer.
close_estate(signer) ==
    IF ~estate.exists THEN Fail("AccountNotInitialized")
    ELSE IF ~estate.is_claimable THEN Fail("NotClaimable")
    ELSE IF ~(estate.total_claims = estate.total_beneficiaries) THEN Fail("NotAllClaimed")
    ELSE Done([St EXCEPT
        !.estate = NoEstate,
        !.lamports = [lamports EXCEPT !["estate"] = 0,
                                      ![signer] = @ + lamports["estate"]]])

emergency_lock(signer) ==
    IF OwnerConstraint(signer) # "Ok" THEN Fail(OwnerConstraint(signer))
    ELSE IF estate.is_locked THEN Fail("AlreadyLocked")
    ELSE IF signer # estate.owner THEN Fail("UnauthorizedAccess")
    ELSE Done([St EXCEPT !.estate = [estate EXCEPT !.is_locked = TRUE]])

emergency_unlock(signer) ==
    IF OwnerConstraint(signer) # "Ok" THEN Fail(OwnerConstraint(signer))
    ELSE IF ~estate.is_locked THEN Fail("NotLocked")
    ELSE IF signer # estate.owner THEN Fail("UnauthorizedAccess")
    ELSE Done([St EXCEPT !.estate = [estate EXCEPT !.is_locked = FALSE]])

\* Mutant: an existing Recovery account is initialized again.
initiate_recovery_again(signer, reason) ==
    IF ~estate.exists THEN Fail("AccountNotInitialized")
    ELSE IF ~estate.is_claimable THEN Fail("NotClaimable")
    ELSE IF ~(ClaimableDuration(estate) >= RECOVERY_DWELL) THEN Fail("RecoveryTooEarly")
    ELSE IF reason > MAX_REASON_LEN THEN Fail("AccountDidNotSerialize")
    ELSE Done([St EXCEPT !.recovery =
        [exists |-> TRUE, initiator |-> signer, initiation_time |-> now,
         execution_time |-> now + RECOVERY_DELAY, is_executed |-> FALSE]])

\* Mutant: exactly 30 days is refused (> in place of >=).
initiate_recovery_strict(signer, reason) ==
    IF ~estate.exists THEN Fail("AccountNotInitialized")
    ELSE IF recovery.exists THEN Fail("AccountAlreadyInUse")
    ELSE IF ~estate.is_claimable THEN Fail("NotClaimable")
    ELSE IF ~(ClaimableDuration(estate) > RECOVERY_DWELL) THEN Fail("RecoveryTooEarly")
    ELSE IF reason > MAX_REASON_LEN THEN Fail("AccountDidNotSerialize")
    ELSE Done([St EXCEPT !.recovery =
        [exists |-> TRUE, initiator |-> signer, initiation_time |-> now,
         execution_time |-> now + RECOVERY_DELAY, is_executed |-> FALSE]])

\* reason stands for the byte length of the reason string.
initiate_recovery(signer, reason) ==
    IF ~estate.exists THEN Fail("AccountNotInitialized")
    ELSE IF recovery.exists THEN Fail("AccountAlreadyInUse")
    ELSE IF ~estate.is_claimable THEN Fail("NotClaimable")
    ELSE IF ~(ClaimableDuration(estate) >= RECOVERY_DWELL) THEN Fail("RecoveryTooEarly")
    ELSE IF reason > MAX_REASON_LEN THEN Fail("AccountDidNotSerialize")
    ELSE Done([St EXCEPT !.recovery =
        [exists |-> TRUE, initiator |-> signer, initiation_time |-> now,
         execution_time |-> now + RECOVERY_DELAY, is_executed |-> FALSE]])

\* Mutant: the execution instant itself is refused (> in place of >=).
execute_recovery_late(signer, recovery_address) ==
    IF ~estate.exists THEN Fail("AccountNotInitialized")
    ELSE IF ~recovery.exists THEN Fail("AccountNotInitialized")
    ELSE IF recovery.is_executed THEN Fail("RecoveryAlreadyExecuted")
    ELSE IF ~(now > recovery.execution_time) THEN Fail("RecoveryNotReady")
    ELSE Done([St EXCEPT
        !.recovery = [recovery EXCEPT !.is_executed = TRUE],
        !.estate = [estate EXCEPT !.owner = recovery_address,
                                  !.is_claimable = FALSE,
                                  !.is_locked = FALSE,
                                  !.beneficiaries = <<>>,
                                  !.total_beneficiaries = 0]])

\* Mutant: the claim counter is reset with the list, and the lock is kept.
execute_recovery_resetting(signer, recovery_address) ==
    IF ~estate.exists THEN Fail("AccountNotInitialized")
    ELSE IF ~recovery.exists THEN Fail("AccountNotInitialized")
    ELSE IF recovery.is_executed THEN Fail("RecoveryAlreadyExecuted")
    ELSE IF ~(now >= recovery.execution_time) THEN Fail("RecoveryNotReady")
    ELSE Done([St EXCEPT
        !.recovery = [recovery EXCEPT !.is_executed = TRUE],
        !.estate = [estate EXCEPT !.owner = recovery_address,
                                  !.is_claimable = FALSE,
                                  !.beneficiaries = <<>>,
                                  !.total_beneficiaries = 0,
                                  !.total_claims = 0]])

execute_recovery(signer, recovery_address) ==
    IF ~estate.exists THEN Fail("AccountNotInitialized")
    ELSE IF ~recovery.exists THEN Fail("AccountNotInitialized")
    ELSE IF recovery.is_executed THEN Fail("RecoveryAlreadyExecuted")
    ELSE IF ~(now >= recovery.execution_time) THEN Fail("RecoveryNotReady")
    ELSE Done([St EXCEPT
        !.recovery = [recovery EXCEPT !.is_executed = TRUE],
        !.estate = [estate EXCEPT !.owner = recovery_address,
                                  !.is_claimable = FALSE,
                                  !.is_locked = FALSE,
                                  !.beneficiaries = <<>>,
                                  !.total_beneficiaries = 0]])

\* ---------------------------------------------------------------- the joint account
\* lib_with_joint_account.rs: the estate program with a JointAccount shared by
\* the estate's owner and an AI agent, and a token vault the account is the
\* authority of.  Its create_estate and check_in are those of lib_original.rs
\* (create_estate also clears has_joint_account); the extension is layered on
\* the instructions of the core program.
MAX_PROFIT_SHARE == 50
MIN_EMERGENCY_DELAY == 24
MAX_EMERGENCY_DELAY == 168
HOUR == 60 * 60

JointHolders == Keys \cup {"vault"}

\* The strategy, stop_loss, last_update_time and created_at fields are read by
\* no instruction and are left out; the estate field is the one estate of the
\* model, so has_one = estate holds of every joint account.
NoJointAccount ==
    [exists |-> FALSE, human_owner |-> NoKey, ai_owner |-> NoKey,
     human_contribution |-> 0, ai_contribution |-> 0, total_value |-> 0, profit |-> 0,
     high_water_mark |-> 0, human_share |-> 0, ai_share |-> 0,
     emergency_delay_hours |-> 0, emergency_withdrawal_initiated |-> FALSE,
     emergency_withdrawal_time |-> 0, is_active |-> FALSE]

\* What a joint-account transaction reads and writes.
JSt ==
    [estate |-> estate, joint_account |-> joint_account,
     joint_account_seeds |-> joint_account_seeds,
     has_joint_account |-> has_joint_account, joint_tokens |-> joint_tokens]

JFail(e) == [err |-> e, st |-> JSt]
JDone(s) == [err |-> "Ok", st |-> s]

\* seeds = [JOINT_ACCOUNT_SEED, estate.key(), owner.key()] of the init in
\* CreateJointAccount: the estate's address stands for estate.key().
CreationSeeds(owner) == <<estate_seeds, owner>>

\* seeds = [JOINT_ACCOUNT_SEED, joint_account.estate, joint_account.human_owner,
\* joint_account.ai_owner] of DistributeJointAccountProfits and
\* ExecuteEmergencyWithdrawal
FourSeeds == <<estate_seeds, joint_account.human_owner, joint_account.ai_owner>>

\* The accounts of CreateJointAccount: has_one = owner on the estate, init of
\* the joint account at the address of its seeds.
CreateJointAccountAccounts(signer) ==
    IF OwnerConstraint(signer) # "Ok" THEN OwnerConstraint(signer)
    ELSE IF joint_account.exists /\ joint_account_seeds = CreationSeeds(signer)
    THEN "AccountAlreadyInUse"
    ELSE "Ok"

create_joint_account(signer, ai_agent, human_share, emergency_delay_hours) ==
    IF CreateJointAccountAccounts(signer) # "Ok"
    THEN JFail(CreateJointAccountAccounts(signer))
    ELSE IF estate.is_locked THEN JFail("EstateLocked")
    ELSE IF estate.is_claimable THEN JFail("EstateClaimable")
    ELSE IF signer # estate.owner THEN JFail("UnauthorizedAccess")
    ELSE IF has_joint_account THEN JFail("JointAccountAlreadyExists")
    ELSE IF ~(human_share >= 50 /\ human_share <= 100) THEN JFail("InvalidProfitShare")
    ELSE IF ~(emergency_delay_hours >= MIN_EMERGENCY_DELAY
              /\ emergency_delay_hours <= MAX_EMERGENCY_DELAY)
    THEN JFail("InvalidEmergencyDelay")
    ELSE JDone([JSt EXCEPT
        !.joint_account =
            [exists |-> TRUE, human_owner |-> signer, ai_owner |-> ai_agent,
             human_contribution |-> 0, ai_contribution |-> 0, total_value |-> 0,
             profit |-> 0, high_water_mark |-> 0, human_share |-> human_share,
             ai_share |-> 100 - human_share,
             emergency_delay_hours |-> emergency_delay_hours,
             emergency_withdrawal_initiated |-> FALSE,
             emergency_withdrawal_time |-> 0, is_active |-> TRUE],
        !.joint_account_seeds = CreationSeeds(signer),
        !.has_joint_account = TRUE])

\* The accounts of ContributeToJointAccount: the estate and the joint account
\* are initialized accounts; the contributor's token account is the signer's.
ContributeToJointAccountAccounts(signer) ==
    IF ~estate.exists THEN "AccountNotInitialized"
    ELSE IF ~joint_account.exists THEN "AccountNotInitialized"
    ELSE "Ok"

\* Estate::check_in
EstateCheckIn(e) == [e EXCEPT !.last_active = now, !.is_claimable = FALSE]

\* The handler of contribute_to_joint_account on the accounts in memory; it ends
\* with estate.check_in() whoever the contributor is.
contribute_to_joint_account_handler(signer, amount) ==
    IF ~joint_account.is_active THEN JFail("JointAccountInactive")
    ELSE IF estate.is_locked THEN JFail("EstateLocked")
    ELSE IF estate.is_claimable THEN JFail("EstateClaimable")
    ELSE IF ~(signer = joint_account.human_owner \/ signer = joint_account.ai_owner)
    THEN JFail("UnauthorizedContributor")
    ELSE IF joint_tokens[signer] < amount THEN JFail("InsufficientFunds")
    ELSE JDone([JSt EXCEPT
        !.joint_tokens = [joint_tokens EXCEPT ![signer] = @ - amount,
                                              !["vault"] = @ + amount],
        !.joint_account =
            [joint_account EXCEPT
                !.human_contribution =
                    IF signer = joint_account.human_owner THEN @ + amount ELSE @,
                !.ai_contribution =
                    IF signer = joint_account.human_owner THEN @ ELSE @ + amount,
                !.total_value = @ + amount],
        !.estate = EstateCheckIn(estate)])

\* Mutant: the estate is written back as if ContributeToJointAccount declared
\* it #[account(mut)].
contribute_to_joint_account_writing_estate(signer, amount) ==
    IF ContributeToJointAccountAccounts(signer) # "Ok"
    THEN JFail(ContributeToJointAccountAccounts(signer))
    ELSE contribute_to_joint_account_handler(signer, amount)

\* The transaction: the accounts are validated, the handler runs, and on
\* success the accounts declared mut are written back.  ContributeToJointAccount
\* declares `pub estate: Account<'info, Estate>` without mut, so the estate
\* account keeps its data and the handler's estate.check_in() is lost.
contribute_to_joint_account(signer, amount) ==
    IF ContributeToJointAccountAccounts(signer) # "Ok"
    THEN JFail(ContributeToJointAccountAccounts(signer))
    ELSE LET r == contribute_to_joint_account_handler(signer, amount) IN
         [err |-> r.err, st |-> [r.st EXCEPT !.estate = estate]]

\* constraint = joint_account.ai_owner == ai_agent.key()
UpdateJointAccountValueAccounts(signer) ==
    IF ~joint_account.exists THEN "AccountNotInitialized"
    ELSE IF joint_account.ai_owner # signer THEN "ConstraintRaw"
    ELSE "Ok"

update_joint_account_value(signer, new_total_value) ==
    IF UpdateJointAccountValueAccounts(signer) # "Ok"
    THEN JFail(UpdateJointAccountValueAccounts(signer))
    ELSE IF signer # joint_account.ai_owner THEN JFail("UnauthorizedAccess")
    ELSE IF ~joint_account.is_active THEN JFail("JointAccountInactive")
    ELSE JDone([JSt EXCEPT
        !.joint_account =
            [joint_account EXCEPT
                !.total_value = new_total_value,
                !.profit = new_total_value
                           - (joint_account.human_contribution
                              + joint_account.ai_contribution),
                !.high_water_mark =
                    IF new_total_value > @ THEN new_total_value ELSE @]])

\* The seeds constraint of DistributeJointAccountProfits on the joint account.
DistributeJointAccountProfitsAccounts ==
    IF ~joint_account.exists THEN "AccountNotInitialized"
    ELSE IF joint_account_seeds # FourSeeds THEN "ConstraintSeeds"
    ELSE "Ok"

\* total_value - high_water_mark when positive, else 0
DistributableProfit(j) ==
    IF j.total_value > j.high_water_mark THEN j.total_value - j.high_water_mark ELSE 0

\* The handler of distribute_joint_account_profits, on a joint account whose
\* accounts validated: the two transfers out of the vault, then the marks.
distribute_joint_account_profits_handler(authority) ==
    LET distributable_profit == DistributableProfit(joint_account)
        human_profit_share == (distributable_profit * joint_account.human_share) \div 100
        ai_profit_share == distributable_profit - human_profit_share
    IN
    IF ~joint_account.is_active THEN JFail("JointAccountInactive")
    ELSE IF ~(joint_account.profit > 0) THEN JFail("NoProfitsToDistribute")
    ELSE IF ~(distributable_profit > 0) THEN JFail("NoProfitsToDistribute")
    ELSE IF joint_tokens["vault"] < distributable_profit THEN JFail("InsufficientFunds")
    ELSE JDone([JSt EXCEPT
        !.joint_tokens =
            [h \in JointHolders |->
                joint_tokens[h]
                + (IF h = joint_account.human_owner THEN human_profit_share ELSE 0)
                + (IF h = joint_account.ai_owner THEN ai_profit_share ELSE 0)
                - (IF h = "vault" THEN distributable_profit ELSE 0)],
        !.joint_account =
            [joint_account EXCEPT
                !.high_water_mark = joint_account.total_value,
                !.total_value = @ - distributable_profit]])

distribute_joint_account_profits(authority) ==
    IF DistributeJointAccountProfitsAccounts # "Ok"
    THEN JFail(DistributeJointAccountProfitsAccounts)
    ELSE distribute_joint_account_profits_handler(authority)

\* constraint = joint_account.human_owner == human_owner.key()
InitiateEmergencyWithdrawalAccounts(signer) ==
    IF ~joint_account.exists THEN "AccountNotInitialized"
    ELSE IF joint_account.human_owner # signer THEN "ConstraintRaw"
    ELSE "Ok"

initiate_emergency_withdrawal(signer) ==
    IF InitiateEmergencyWithdrawalAccounts(signer) # "Ok"
    THEN JFail(InitiateEmergencyWithdrawalAccounts(signer))
    ELSE IF signer # joint_account.human_owner THEN JFail("UnauthorizedAccess")
    ELSE IF ~joint_account.is_active THEN JFail("JointAccountInactive")
    ELSE IF joint_account.emergency_withdrawal_initiated
    THEN JFail("EmergencyWithdrawalAlreadyInitiated")
    ELSE JDone([JSt EXCEPT
        !.joint_account =
            [joint_account EXCEPT
                !.emergency_withdrawal_initiated = TRUE,
                !.emergency_withdrawal_time =
                    now + joint_account.emergency_delay_hours * HOUR]])

\* The accounts of ExecuteEmergencyWithdrawal: has_one = human_owner on the
\* estate (the signer is the estate's owner), then on the joint account the
\* seeds, has_one = human_owner and has_one = estate.
ExecuteEmergencyWithdrawalAccounts(signer) ==
    IF OwnerConstraint(signer) # "Ok" THEN OwnerConstraint(signer)
    ELSE IF ~joint_account.exists THEN "AccountNotInitialized"
    ELSE IF joint_account_seeds # FourSeeds THEN "ConstraintSeeds"
    ELSE IF joint_account.human_owner # signer THEN "ConstraintHasOne"
    ELSE "Ok"

\* The handler of execute_emergency_withdrawal, on accounts that validated.
execute_emergency_withdrawal_handler(signer) ==
    LET total_contributions ==
            joint_account.human_contribution + joint_account.ai_contribution
        human_proportion ==
            IF total_contributions > 0
            THEN (joint_account.human_contribution * joint_account.total_value)
                 \div total_contributions
            ELSE 0
    IN
    IF signer # joint_account.human_owner THEN JFail("UnauthorizedAccess")
    ELSE IF ~joint_account.emergency_withdrawal_initiated
    THEN JFail("EmergencyWithdrawalNotInitiated")
    ELSE IF ~(now >= joint_account.emergency_withdrawal_time)
    THEN JFail("EmergencyWithdrawalNotReady")
    ELSE IF joint_tokens["vault"] < human_proportion THEN JFail("InsufficientFunds")
    ELSE JDone([JSt EXCEPT
        !.joint_tokens = [joint_tokens EXCEPT ![signer] = @ + human_proportion,
                                              !["vault"] = @ - human_proportion],
        !.joint_account = [joint_account EXCEPT !.is_active = FALSE,
                                                !.total_value = 0],
        !.has_joint_account = FALSE])

execute_emergency_withdrawal(signer) ==
    IF ExecuteEmergencyWithdrawalAccounts(signer) # "Ok"
    THEN JFail(ExecuteEmergencyWithdrawalAccounts(signer))
    ELSE execute_emergency_withdrawal_handler(signer)

\* ---------------------------------------------------------------- the app factory
\* lib_backup.rs (defai_app_factory): apps registered under the factory, and
\* access to an app bought with DEFAI tokens and minted as one SFT.  The
\* counters and amounts are u64 and updated with checked_add / checked_mul /
\* checked_sub; the values of the model stay far below 2^64, where none of
\* them fails with MathOverflow.
MAX_FEE_BPS == 10000
MAX_URI_LEN == 200

AppIds == 1..MaxApps

\* The master_collection, sft_mint, metadata_uri, created_at and bump fields
\* are read by no instruction after they are written and are left out.
NoAppFactory ==
    [exists |-> FALSE, authority |-> NoKey, defai_mint |-> NoMint, treasury |-> NoKey,
     platform_fee_bps |-> 0, total_apps |-> 0]

NoAppRegistration ==
    [exists |-> FALSE, app_id |-> 0, creator |-> NoKey, price |-> 0, max_supply |-> 0,
     current_supply |-> 0, is_active |-> FALSE]

\* What an app-factory transaction reads and writes.
ASt ==
    [app_factory |-> app_factory, app_registrations |-> app_registrations,
     user_app_access |-> user_app_access, defai_tokens |-> defai_tokens,
     sft_tokens |-> sft_tokens]

AFail(e) == [err |-> e, st |-> ASt]
ADone(s) == [err |-> "Ok", st |-> s]

initialize_app_factory(authority, defai_mint, treasury, platform_fee_bps) ==
    IF app_factory.exists THEN AFail("AccountAlreadyInUse")
    ELSE IF ~(platform_fee_bps <= MAX_FEE_BPS) THEN AFail("InvalidPlatformFee")
    ELSE ADone([ASt EXCEPT
        !.app_factory = [exists |-> TRUE, authority |-> authority,
                         defai_mint |-> defai_mint, treasury |-> treasury,
                         platform_fee_bps |-> platform_fee_bps, total_apps |-> 0]])

\* The app_registration account is created at the address of total_apps + 1.
register_app(creator, price, max_supply, metadata_uri_len) ==
    IF ~app_factory.exists THEN AFail("AccountNotInitialized")
    ELSE IF ~(price > 0) THEN AFail("InvalidPrice")
    ELSE IF ~(max_supply > 0) THEN AFail("InvalidMaxSupply")
    ELSE IF ~(metadata_uri_len <= MAX_URI_LEN) THEN AFail("MetadataUriTooLong")
    ELSE LET app_id == app_factory.total_apps + 1 IN
         ADone([ASt EXCEPT
            !.app_factory = [app_factory EXCEPT !.total_apps = app_id],
            !.app_registrations =
                [app_registrations EXCEPT
                    ![app_id] = [exists |-> TRUE, app_id |-> app_id, creator |-> creator,
                                 price |-> price, max_supply |-> max_supply,
                                 current_supply |-> 0, is_active |-> TRUE]]])

\* The accounts of PurchaseAppAccess: the factory, the registration at the
\* address of app_id, and the init of the user's access record.
PurchaseAppAccessAccounts(user, app_id) ==
    IF ~app_factory.exists THEN "AccountNotInitialized"
    ELSE IF ~app_registrations[app_id].exists THEN "AccountNotInitialized"
    ELSE IF <<user, app_id>> \in user_app_access THEN "AccountAlreadyInUse"
    ELSE "Ok"

\* Mutant: the supply is not compared with max_supply.
purchase_app_access_unlimited(user, app_id, creator, treasury, defai_mint) ==
    LET reg == app_registrations[app_id]
        total_price == reg.price
        creator_amount == (total_price * (MAX_FEE_BPS - app_factory.platform_fee_bps))
                          \div MAX_FEE_BPS
        platform_amount == total_price - creator_amount
    IN
    IF PurchaseAppAccessAccounts(user, app_id) # "Ok"
    THEN AFail(PurchaseAppAccessAccounts(user, app_id))
    ELSE IF ~reg.is_active THEN AFail("AppNotActive")
    ELSE IF creator # reg.creator THEN AFail("InvalidCreator")
    ELSE IF treasury # app_factory.treasury THEN AFail("InvalidTreasury")
    ELSE IF defai_mint # app_factory.defai_mint THEN AFail("InvalidDefaiMint")
    ELSE IF defai_tokens[user] < total_price THEN AFail("InsufficientFunds")
    ELSE ADone([ASt EXCEPT
        !.defai_tokens =
            [h \in Keys |->
                defai_tokens[h]
                - (IF h = user THEN total_price ELSE 0)
                + (IF h = creator THEN creator_amount ELSE 0)
                + (IF h = treasury THEN platform_amount ELSE 0)],
        !.sft_tokens = [sft_tokens EXCEPT ![app_id][user] = @ + 1],
        !.app_registrations =
            [app_registrations EXCEPT ![app_id].current_supply = @ + 1],
        !.user_app_access = user_app_access \cup {<<user, app_id>>}])

purchase_app_access(user, app_id, creator, treasury, defai_mint) ==
    LET reg == app_registrations[app_id]
        total_price == reg.price
        creator_amount == (total_price * (MAX_FEE_BPS - app_factory.platform_fee_bps))
                          \div MAX_FEE_BPS
        platform_amount == total_price - creator_amount
    IN
    IF PurchaseAppAccessAccounts(user, app_id) # "Ok"
    THEN AFail(PurchaseAppAccessAccounts(user, app_id))
    ELSE IF ~reg.is_active THEN AFail("AppNotActive")
    ELSE IF ~(reg.current_supply < reg.max_supply) THEN AFail("MaxSupplyReached")
    ELSE IF creator # reg.creator THEN AFail("InvalidCreator")
    ELSE IF treasury # app_factory.treasury THEN AFail("InvalidTreasury")
    ELSE IF defai_mint # app_factory.defai_mint THEN AFail("InvalidDefaiMint")
    ELSE IF defai_tokens[user] < total_price THEN AFail("InsufficientFunds")
    ELSE ADone([ASt EXCEPT
        !.defai_tokens =
            [h \in Keys |->
                defai_tokens[h]
                - (IF h = user THEN total_price ELSE 0)
                + (IF h = creator THEN creator_amount ELSE 0)
                + (IF h = treasury THEN platform_amount ELSE 0)],
        !.sft_tokens = [sft_tokens EXCEPT ![app_id][user] = @ + 1],
        !.app_registrations =
            [app_registrations EXCEPT ![app_id].current_supply = @ + 1],
        !.user_app_access = user_app_access \cup {<<user, app_id>>}])

\* has_one = creator @ UnauthorizedCreator on the registration at app_id
toggle_app_status(creator, app_id) ==
    IF ~app_registrations[app_id].exists THEN AFail("AccountNotInitialized")
    ELSE IF app_registrations[app_id].creator # creator THEN AFail("UnauthorizedCreator")
    ELSE ADone([ASt EXCEPT
        !.app_registrations = [app_registrations EXCEPT ![app_id].is_active = ~@]])

\* ---------------------------------------------------------------- inputs
Creators == {"owner"}
PeriodChoices == {DAY - 1, DAY}
Fundings == {MIN_RENT_BALANCE - 1, MIN_RENT_BALANCE + 101}
DepositAmounts == {1000}
TokenAmounts == {1, 250}
RecoveryAddresses == {"carol"}
\* Byte lengths of the reason string.
ReasonLengths == {4, MAX_REASON_LEN + 1}
OwnerCallers == {"owner", "carol"}
ClaimCallers == {"alice", "bob"}
Admins == {"carol"}
Closers == {"carol"}
Indexes == 0..MaxListLen
\* Total byte lengths of the strings of an RWA.
RwaTexts == {10, MAX_RWA_TEXT + 1}
\* The joint account: the AI agent the owner names, the signers of its
\* instructions, and their arguments.
AiAgents == {"alice"}
JointCallers == {"owner", "alice", "bob"}
HumanShares == {MAX_PROFIT_SHARE - 1, 60}
DelayChoices == {MIN_EMERGENCY_DELAY - 1, MIN_EMERGENCY_DELAY}
ContributionAmounts == 1..MaxWallet
NewTotalValues == {2, 5}
\* The app factory: the creator of the apps, the buyers, and the arguments.
AppCreators == {"owner"}
AppCallers == {"owner", "alice"}
Buyers == {"alice", "bob"}
Treasuries == {"carol"}
FeeChoices == {2000, MAX_FEE_BPS + 1}
Prices == {0, 10}
MaxSupplies == 0..MaxSupply
\* Byte lengths of the metadata URI.
UriLengths == {10, MAX_URI_LEN + 1}

Uniform(n) == [i \in 1..n |-> Beneficiary("dave", 10, FALSE)]

\* The lists an owner submits: valid ones, one whose shares sum to 120, one whose
\* shares sum to 356 (100 modulo 256), one already marked claimed, one of the
\* maximal length and one longer.
BeneficiaryLists ==
    {<<>>, <<Beneficiary("alice", 100, FALSE)>>, <<Beneficiary("bob", 100, TRUE)>>,
     <<Beneficiary("alice", 60, FALSE), Beneficiary("bob", 40, FALSE)>>,
     <<Beneficiary("alice", 60, FALSE), Beneficiary("bob", 60, FALSE)>>,
     <<Beneficiary("alice", 200, FALSE), Beneficiary("bob", 156, FALSE)>>,
     Uniform(MAX_BENEFICIARIES), Uniform(MAX_BENEFICIARIES + 1)}

\* Lists that name one address twice: the program does not compare addresses.
SharedAddressLists ==
    {<<Beneficiary("alice", 60, FALSE), Beneficiary("alice", 40, FALSE)>>}

\* The instants at which a comparison of the program changes its outcome, and
\* the second before each.
Instants ==
    (IF estate.exists
     THEN {GraceEnds(estate), GraceEnds(estate) + 1,
           GraceEnds(estate) + RECOVERY_DWELL - 1, GraceEnds(estate) + RECOVERY_DWELL}
     ELSE {})
    \cup (IF recovery.exists
          THEN {recovery.execution_time - 1, recovery.execution_time}
          ELSE {})

\* The first instant at which each time-locked instruction is allowed.
Deadlines ==
    (IF estate.exists
     THEN {GraceEnds(estate) + 1, GraceEnds(estate) + RECOVERY_DWELL}
     ELSE {})
    \cup (IF recovery.exists THEN {recovery.execution_time} ELSE {})

\* ---------------------------------------------------------------- the state machine
Init ==
    /\ now = 0
    /\ overflow_checks \in BOOLEAN
    /\ global_counter = NoCounter
    /\ estate = NoEstate
    /\ estate_seeds = NoSeeds
    /\ lamports = [h \in Holders |-> 0]
    /\ tokens = [h \in Holders |-> [m \in Mints |-> 0]]
    /\ claim_records = [k \in Keys |-> NoClaimRecord]
    /\ recovery = NoRecovery
    /\ rwas = [n \in RwaNumbers |-> NoRWA]
    /\ last = Last("none", NoKey, NoIndex, NoMint, 0)
    /\ phase_claims = {}
    /\ check_ins = 0
    /\ deposits = 0
    /\ estate_numbers = <<>>
    /\ joint_account = NoJointAccount
    /\ joint_account_seeds = <<>>
    /\ has_joint_account = FALSE
    /\ joint_tokens = [h \in JointHolders |-> IF h = "vault" THEN 0 ELSE MaxWallet]
    /\ app_factory = NoAppFactory
    /\ app_registrations = [id \in AppIds |-> NoAppRegistration]
    /\ user_app_access = {}
    /\ defai_tokens = [h \in Keys |-> IF h \in Buyers THEN MaxWalletDefai ELSE 0]
    /\ sft_tokens = [id \in AppIds |-> [h \in Keys |-> 0]]

\* Commit the result r of instruction op: the new state, or the rollback.
Commit(op, r, info) ==
    /\ global_counter' = r.st.global_counter
    /\ estate' = r.st.estate
    /\ estate_seeds' = r.st.estate_seeds
    /\ lamports' = r.st.lamports
    /\ tokens' = r.st.tokens
    /\ claim_records' = r.st.claim_records
    /\ recovery' = r.st.recovery
    /\ rwas' = r.st.rwas
    /\ last' = IF r.err = "Ok" THEN Last(op, info[1], info[2], info[3], info[4]) ELSE last
    /\ estate_numbers' = IF op = "create_estate" /\ r.err = "Ok"
                       THEN Append(estate_numbers, r.st.estate.estate_number)
                       ELSE estate_numbers
    /\ UNCHANGED <<now, overflow_checks, jointVars, appVars>>

\* The claim phase lasts while is_claimable stays true.
PhaseAfter(r, claimed) ==
    IF r.st.estate.is_claimable THEN phase_claims \cup claimed ELSE {}

InitializeGlobalCounter ==
    \E signer \in Creators :
        /\ Commit("initialize_global_counter", initialize_global_counter(signer), <<signer, NoIndex, NoMint, 0>>)
        /\ UNCHANGED <<phase_claims, check_ins, deposits>>

\* The model follows the first estate the registry numbers.
CreateEstateWith(fundings) ==
    \E signer \in Creators, ip \in PeriodChoices, gp \in PeriodChoices, f \in fundings :
        /\ global_counter.count = 0
        /\ Commit("create_estate", create_estate(signer, ip, gp, f), <<signer, NoIndex, NoMint, f>>)
        /\ UNCHANGED <<phase_claims, check_ins, deposits>>

CreateEstate == CreateEstateWith({MIN_RENT_BALANCE + 101})

CreateEstateFunded == CreateEstateWith(Fundings)

\* The registry numbers one estate after another; the estate account of the
\* model is then the one created last.
CreateEstateNext ==
    \E signer \in OwnerCallers, ip \in PeriodChoices, gp \in PeriodChoices :
        LET r == create_estate(signer, ip, gp, MIN_RENT_BALANCE + 101) IN
        /\ r.err = "Ok" => global_counter.count < MaxEstates
        /\ Commit("create_estate", r, <<signer, NoIndex, NoMint, 0>>)
        /\ phase_claims' = {}
        /\ UNCHANGED <<check_ins, deposits>>

CheckIn ==
    \E signer \in OwnerCallers :
        LET r == check_in(signer) IN
        /\ r.err = "Ok" => check_ins < MaxCheckIns
        /\ Commit("check_in", r, <<signer, NoIndex, NoMint, 0>>)
        /\ phase_claims' = PhaseAfter(r, {})
        /\ check_ins' = IF r.err = "Ok" THEN check_ins + 1 ELSE check_ins
        /\ UNCHANGED deposits

UpdateBeneficiariesOf(lists) ==
    \E signer \in OwnerCallers, list \in lists :
        LET r == update_beneficiaries(signer, list) IN
        /\ Commit("update_beneficiaries", r, <<signer, NoIndex, NoMint, 0>>)
        /\ phase_claims' = PhaseAfter(r, {})
        /\ UNCHANGED <<check_ins, deposits>>

UpdateBeneficiaries == UpdateBeneficiariesOf(BeneficiaryLists)

UpdateBeneficiariesShared ==
    UpdateBeneficiariesOf(BeneficiaryLists \cup SharedAddressLists)

TriggerInheritance ==
    \E signer \in Admins :
        LET r == trigger_inheritance(signer) IN
        /\ Commit("trigger_inheritance", r, <<signer, NoIndex, NoMint, 0>>)
        /\ phase_claims' = PhaseAfter(r, {})
        /\ UNCHANGED <<check_ins, deposits>>

ClaimInheritance ==
    \E signer \in ClaimCallers, i \in Indexes :
        LET r == claim_inheritance(signer, i) IN
        /\ Commit("claim_inheritance", r, <<signer, i, NoMint, 0>>)
        /\ phase_claims' = PhaseAfter(r, IF r.err = "Ok" THEN {i} ELSE {})
        /\ UNCHANGED <<check_ins, deposits>>

ClaimInheritanceV2 ==
    \E signer \in ClaimCallers, i \in Indexes :
        LET r == claim_inheritance_v2(signer, i) IN
        /\ Commit("claim_inheritance_v2", r, <<signer, i, NoMint, r.st.lamports[signer] - lamports[signer]>>)
        /\ phase_claims' = PhaseAfter(r, IF r.err = "Ok" THEN {i} ELSE {})
        /\ UNCHANGED <<check_ins, deposits>>

ClaimToken ==
    \E signer \in ClaimCallers, i \in Indexes, m \in Mints :
      \E rec \in {signer, "alice"} :
        LET r == claim_token(signer, rec, i, m) IN
        /\ Commit("claim_token", r, <<signer, i, m, r.st.tokens[signer][m] - tokens[signer][m]>>)
        /\ UNCHANGED <<phase_claims, check_ins, deposits>>

ClaimNFT ==
    \E signer \in ClaimCallers, i \in Indexes, m \in Mints :
      \E rec \in {signer, "alice"} :
        LET r == claim_nft(signer, rec, i, m) IN
        /\ Commit("claim_nft", r, <<signer, i, m, 1>>)
        /\ UNCHANGED <<phase_claims, check_ins, deposits>>

CloseEstate ==
    \E signer \in Closers :
        LET r == close_estate(signer) IN
        /\ Commit("close_estate", r, <<signer, NoIndex, NoMint, lamports["estate"]>>)
        /\ phase_claims' = PhaseAfter(r, {})
        /\ UNCHANGED <<check_ins, deposits>>

EmergencyLock ==
    \E signer \in OwnerCallers :
        /\ Commit("emergency_lock", emergency_lock(signer), <<signer, NoIndex, NoMint, 0>>)
        /\ UNCHANGED <<phase_claims, check_ins, deposits>>

EmergencyUnlock ==
    \E signer \in OwnerCallers :
        /\ Commit("emergency_unlock", emergency_unlock(signer), <<signer, NoIndex, NoMint, 0>>)
        /\ UNCHANGED <<phase_claims, check_ins, deposits>>

InitiateRecovery ==
    \E signer \in Admins, reason \in ReasonLengths :
        /\ Commit("initiate_recovery", initiate_recovery(signer, reason),
                  <<signer, NoIndex, NoMint, 0>>)
        /\ UNCHANGED <<phase_claims, check_ins, deposits>>

ExecuteRecovery ==
    \E signer \in Admins, a \in RecoveryAddresses :
        LET r == execute_recovery(signer, a) IN
        /\ Commit("execute_recovery", r, <<signer, NoIndex, NoMint, 0>>)
        /\ phase_claims' = PhaseAfter(r, {})
        /\ UNCHANGED <<check_ins, deposits>>

CreateRWA ==
    \E signer \in OwnerCallers, text \in RwaTexts :
        LET r == create_rwa(signer, text) IN
        /\ r.err = "Ok" => estate.total_rwas < MaxRwas
        /\ Commit("create_rwa", r, <<signer, NoIndex, NoMint, 0>>)
        /\ UNCHANGED <<phase_claims, check_ins, deposits>>

\* The owner registers one RWA after another.
CreateRWANext ==
    \E signer \in OwnerCallers, text \in RwaTexts :
        LET r == create_rwa(signer, text) IN
        /\ r.err = "Ok" => estate.total_rwas < MaxRwaRecords
        /\ Commit("create_rwa", r, <<signer, NoIndex, NoMint, 0>>)
        /\ UNCHANGED <<phase_claims, check_ins, deposits>>

DeleteRWA ==
    \E signer \in OwnerCallers, rwa \in RwaNumbers :
        /\ Commit("delete_rwa", delete_rwa(signer, rwa), <<signer, rwa, NoMint, 0>>)
        /\ UNCHANGED <<phase_claims, check_ins, deposits>>

TransferRWAOwnership ==
    \E signer \in ClaimCallers, rwa \in RwaNumbers, rwa_number \in RwaNumbers :
      \E rec \in {signer, "alice"} :
        /\ Commit("transfer_rwa_ownership",
                  transfer_rwa_ownership(signer, rec, rwa, rwa_number),
                  <<signer, rwa, NoMint, 0>>)
        /\ UNCHANGED <<phase_claims, check_ins, deposits>>

\* The host clock moves forward, to an instant of the menu.
TickTo(menu) ==
    \E t \in menu :
        /\ t > now
        /\ now' = t
        /\ last' = Last("tick", NoKey, NoIndex, NoMint, 0)
        /\ UNCHANGED <<overflow_checks, global_counter, estate, estate_seeds, lamports,
                       tokens, claim_records, recovery, rwas, phase_claims, check_ins, deposits,
                       estate_numbers, jointVars, appVars>>

Tick == TickTo(Instants)

TickDeadline == TickTo(Deadlines)

\* Anyone may send lamports to the estate account.
Deposit ==
    \E a \in DepositAmounts :
        /\ estate.exists
        /\ deposits < MaxDeposits
        /\ lamports' = [lamports EXCEPT !["estate"] = @ + a]
        /\ deposits' = deposits + 1
        /\ last' = Last("deposit", NoKey, NoIndex, NoMint, 0)
        /\ UNCHANGED <<now, overflow_checks, global_counter, estate, estate_seeds, tokens,
                       claim_records, recovery, rwas, phase_claims, check_ins, estate_numbers,
                       jointVars, appVars>>

\* Anyone may send tokens to the estate's associated token account.
DepositToken ==
    \E m \in Mints, a \in TokenAmounts :
        /\ estate.exists
        /\ deposits < MaxDeposits
        /\ tokens' = [tokens EXCEPT !["estate"][m] = @ + a]
        /\ deposits' = deposits + 1
        /\ last' = Last("deposit_token", NoKey, NoIndex, NoMint, 0)
        /\ UNCHANGED <<now, overflow_checks, global_counter, estate, estate_seeds, lamports,
                       claim_records, recovery, rwas, phase_claims, check_ins, estate_numbers,
                       jointVars, appVars>>

\* Commit the result r of a joint-account instruction.
CommitJoint(op, r, signer, amount) ==
    /\ estate' = r.st.estate
    /\ joint_account' = r.st.joint_account
    /\ joint_account_seeds' = r.st.joint_account_seeds
    /\ has_joint_account' = r.st.has_joint_account
    /\ joint_tokens' = r.st.joint_tokens
    /\ last' = IF r.err = "Ok" THEN Last(op, signer, NoIndex, NoMint, amount) ELSE last
    /\ UNCHANGED <<now, overflow_checks, global_counter, estate_seeds, lamports, tokens,
                   claim_records, recovery, rwas, estate_numbers, appVars>>

CreateJointAccount ==
    \E signer \in OwnerCallers, ai \in AiAgents, hs \in HumanShares, d \in DelayChoices :
        /\ CommitJoint("create_joint_account", create_joint_account(signer, ai, hs, d),
                       signer, 0)
        /\ UNCHANGED <<phase_claims, check_ins, deposits>>

ContributeToJointAccount ==
    \E signer \in JointCallers, amount \in ContributionAmounts :
        /\ CommitJoint("contribute_to_joint_account",
                       contribute_to_joint_account(signer, amount), signer, amount)
        /\ UNCHANGED <<phase_claims, check_ins, deposits>>

UpdateJointAccountValue ==
    \E signer \in JointCallers, v \in NewTotalValues :
        /\ CommitJoint("update_joint_account_value",
                       update_joint_account_value(signer, v), signer, v)
        /\ UNCHANGED <<phase_claims, check_ins, deposits>>

DistributeJointAccountProfits ==
    \E signer \in JointCallers :
        /\ CommitJoint("distribute_joint_account_profits",
                       distribute_joint_account_profits(signer), signer,
                       DistributableProfit(joint_account))
        /\ UNCHANGED <<phase_claims, check_ins, deposits>>

InitiateEmergencyWithdrawal ==
    \E signer \in JointCallers :
        /\ CommitJoint("initiate_emergency_withdrawal",
                       initiate_emergency_withdrawal(signer), signer, 0)
        /\ UNCHANGED <<phase_claims, check_ins, deposits>>

ExecuteEmergencyWithdrawal ==
    \E signer \in JointCallers :
        /\ CommitJoint("execute_emergency_withdrawal",
                       execute_emergency_withdrawal(signer), signer, 0)
        /\ UNCHANGED <<phase_claims, check_ins, deposits>>

\* The end of the emergency delay and the second before it; before the
\* withdrawal is initiated, the first hours of the joint account.
JointInstants ==
    IF joint_account.emergency_withdrawal_initiated
    THEN {joint_account.emergency_withdrawal_time - 1,
          joint_account.emergency_withdrawal_time}
    ELSE IF joint_account.exists THEN {HOUR} ELSE {}

TickJoint == TickTo(JointInstants)

\* Commit the result r of an app-factory instruction.
CommitApp(op, r, signer, app_id) ==
    /\ app_factory' = r.st.app_factory
    /\ app_registrations' = r.st.app_registrations
    /\ user_app_access' = r.st.user_app_access
    /\ defai_tokens' = r.st.defai_tokens
    /\ sft_tokens' = r.st.sft_tokens
    /\ last' = IF r.err = "Ok" THEN Last(op, signer, app_id, NoMint, 0) ELSE last
    /\ UNCHANGED <<now, overflow_checks, global_counter, estate, estate_seeds, lamports,
                   tokens, claim_records, recovery, rwas, estate_numbers, jointVars>>

InitializeAppFactory ==
    \E signer \in AppCreators, t \in Treasuries, fee \in FeeChoices :
        /\ CommitApp("initialize_app_factory",
                     initialize_app_factory(signer, "m1", t, fee), signer, NoIndex)
        /\ UNCHANGED <<phase_claims, check_ins, deposits>>

RegisterApp ==
    \E signer \in AppCreators, price \in Prices, ms \in MaxSupplies, uri \in UriLengths :
        LET r == register_app(signer, price, ms, uri) IN
        /\ r.err = "Ok" => app_factory.total_apps < MaxApps
        /\ CommitApp("register_app", r, signer, r.st.app_factory.total_apps)
        /\ UNCHANGED <<phase_claims, check_ins, deposits>>

PurchaseAppAccess ==
    \E user \in Buyers, id \in AppIds, creator \in AppCreators, t \in Treasuries :
        /\ CommitApp("purchase_app_access",
                     purchase_app_access(user, id, creator, t, "m1"), user, id)
        /\ UNCHANGED <<phase_claims, check_ins, deposits>>

ToggleAppStatus ==
    \E signer \in AppCallers, id \in AppIds :
        /\ CommitApp("toggle_app_status", toggle_app_status(signer, id), signer, id)
        /\ UNCHANGED <<phase_claims, check_ins, deposits>>

\* The life of an estate: registration, check-ins, the dead-man switch, the
\* inheritance claims, recovery and closing.
Next ==
    \/ InitializeGlobalCounter
    \/ CreateEstate
    \/ CheckIn
    \/ UpdateBeneficiaries
    \/ TriggerInheritance
    \/ ClaimInheritance
    \/ ClaimInheritanceV2
    \/ CloseEstate
    \/ EmergencyLock
    \/ EmergencyUnlock
    \/ InitiateRecovery
    \/ ExecuteRecovery
    \/ Tick

Spec == Init /\ [][Next]_vars

\* The distribution of the estate's holdings.
NextAssets ==
    \/ InitializeGlobalCounter
    \/ CreateEstateFunded
    \/ UpdateBeneficiariesShared
    \/ TriggerInheritance
    \/ ClaimInheritance
    \/ ClaimInheritanceV2
    \/ ClaimToken
    \/ ClaimNFT
    \/ TickDeadline
    \/ Deposit
    \/ DepositToken

SpecAssets == Init /\ [][NextAssets]_vars

\* The real-world-asset records of an estate, through the lock, the dead-man
\* switch and the claims.
NextRWA ==
    \/ InitializeGlobalCounter
    \/ CreateEstate
    \/ CheckIn
    \/ UpdateBeneficiaries
    \/ CreateRWA
    \/ DeleteRWA
    \/ TriggerInheritance
    \/ ClaimInheritanceV2
    \/ TransferRWAOwnership
    \/ EmergencyLock
    \/ EmergencyUnlock
    \/ TickDeadline

SpecRWA == Init /\ [][NextRWA]_vars

\* The registry: estates are created one after another, and the owner of the
\* latest one uses it.
NextRegistry ==
    \/ InitializeGlobalCounter
    \/ CreateEstateNext
    \/ CheckIn
    \/ UpdateBeneficiaries
    \/ EmergencyLock
    \/ EmergencyUnlock
    \/ TriggerInheritance
    \/ TickDeadline

SpecRegistry == Init /\ [][NextRegistry]_vars

\* The RWA records of an estate while its owner is active: created, deleted,
\* under the lock and across the dead-man switch and a check-in.
NextRWARecords ==
    \/ InitializeGlobalCounter
    \/ CreateEstate
    \/ CreateRWANext
    \/ DeleteRWA
    \/ EmergencyLock
    \/ EmergencyUnlock
    \/ CheckIn
    \/ TriggerInheritance
    \/ TickDeadline

SpecRWARecords == Init /\ [][NextRWARecords]_vars

\* The joint account of an estate: the owner and the AI agent contribute, the
\* agent reports the value, profits are distributed, the owner withdraws in an
\* emergency.
NextJoint ==
    \/ InitializeGlobalCounter
    \/ CreateEstate
    \/ CreateJointAccount
    \/ ContributeToJointAccount
    \/ UpdateJointAccountValue
    \/ DistributeJointAccountProfits
    \/ InitiateEmergencyWithdrawal
    \/ ExecuteEmergencyWithdrawal
    \/ TickJoint

SpecJoint == Init /\ [][NextJoint]_vars

\* The inactivity timer of an estate with a joint account: check-ins and
\* contributions, the dead-man switch and recovery.
NextTimer ==
    \/ InitializeGlobalCounter
    \/ CreateEstate
    \/ CheckIn
    \/ TriggerInheritance
    \/ InitiateRecovery
    \/ ExecuteRecovery
    \/ CreateJointAccount
    \/ ContributeToJointAccount
    \/ Tick

SpecTimer == Init /\ [][NextTimer]_vars

\* The app factory: apps are registered, toggled and bought.
NextApps ==
    \/ InitializeAppFactory
    \/ RegisterApp
    \/ PurchaseAppAccess
    \/ ToggleAppStatus

SpecApps == Init /\ [][NextApps]_vars

\* ================================================================ the claims
\* The deadline of the dead-man switch, as the specification states it.
Deadline == estate.last_active + estate.inactivity_period + estate.grace_period

\* C1: on an estate that is neither locked nor claimable, trigger_inheritance by
\* any caller succeeds, setting is_claimable and nothing else, exactly when
\* now > last_active + inactivity_period + grace_period; at the boundary instant
\* and before it, it fails with NotYetClaimable and changes nothing.
C1_TriggerAfterDeadline ==
    (estate.exists /\ ~estate.is_locked /\ ~estate.is_claimable) =>
        \A c \in Keys :
            LET r == trigger_inheritance(c) IN
            /\ (r.err = "Ok") <=> (now > Deadline)
            /\ (now > Deadline) =>
                   r.st = [St EXCEPT !.estate = [estate EXCEPT !.is_claimable = TRUE]]
            /\ (now <= Deadline) => (r.err = "NotYetClaimable" /\ r.st = St)

\* C1 witness: the trigger has just succeeded one second past the deadline.
C1_Witness ==
    /\ last.op = "trigger_inheritance"
    /\ estate.is_claimable
    /\ now = Deadline + 1

\* The sum of the shares as a mathematical integer.
RECURSIVE ShareSum(_)
ShareSum(list) ==
    IF Len(list) = 0 THEN 0
    ELSE list[1].share_percentage + ShareSum(SubSeq(list, 2, Len(list)))

\* C2 (as claimed): every list update_beneficiaries accepts has at most 10
\* entries whose shares sum, as an integer, to exactly 100; so the stored list is
\* always empty or sums to exactly 100.
C2_SharesSumTo100 ==
    /\ \A c \in Keys, list \in BeneficiaryLists :
           update_beneficiaries(c, list).err = "Ok" =>
               (Len(list) <= 10 /\ ShareSum(list) = 100)
    /\ estate.exists =>
           (Len(estate.beneficiaries) <= 10
            /\ (estate.beneficiaries = <<>> \/ ShareSum(estate.beneficiaries) = 100))

AddressAt(i) == estate.beneficiaries[i + 1].address

\* C3 (as claimed): once an inheritance claim has succeeded for index i, every
\* later claim_inheritance or claim_inheritance_v2 call by that beneficiary for i,
\* in the same claim phase, fails with AlreadyClaimed and changes nothing.
C3_RepeatFailsAlreadyClaimed ==
    \A i \in phase_claims :
        AddressAt(i) \in Keys =>
            /\ claim_inheritance(AddressAt(i), i).err = "AlreadyClaimed"
            /\ claim_inheritance_v2(AddressAt(i), i).err = "AlreadyClaimed"
            /\ claim_inheritance(AddressAt(i), i).st = St
            /\ claim_inheritance_v2(AddressAt(i), i).st = St

\* C3 (amended): once an inheritance claim has succeeded for index i, every later
\* claim_inheritance or claim_inheritance_v2 call for i in the same claim phase,
\* by any caller, fails and changes nothing (no transfer, total_claims and the
\* ClaimRecord as they were); by the beneficiary itself claim_inheritance fails
\* with AlreadyClaimed, and claim_inheritance_v2 fails with AlreadyClaimed unless
\* the beneficiary's ClaimRecord exists, when the init of that account fails first.
C3_RepeatFails ==
    \A i \in phase_claims : \A c \in Keys :
        LET r1 == claim_inheritance(c, i)
            r2 == claim_inheritance_v2(c, i)
        IN  /\ r1.err # "Ok" /\ r2.err # "Ok"
            /\ r1.st.estate.total_claims = estate.total_claims
            /\ r2.st.estate.total_claims = estate.total_claims
            /\ r1.st.lamports = lamports /\ r2.st.lamports = lamports
            /\ r1.st.claim_records = claim_records /\ r2.st.claim_records = claim_records
            /\ c = AddressAt(i) =>
                   /\ r1.err = "AlreadyClaimed"
                   /\ r2.err = IF claim_records[c].exists THEN "AccountAlreadyInUse"
                               ELSE "AlreadyClaimed"

\* C3 witness: claim_inheritance_v2 has just succeeded for an index of the phase,
\* and the beneficiary's record exists.
C3_Witness ==
    /\ last.op = "claim_inheritance_v2"
    /\ last.index \in phase_claims
    /\ claim_records[last.by].exists
    /\ estate.is_claimable

\* floor(max(B - MIN_RENT_BALANCE, 0) * s / 100)
ExpectedShare(B, s) == ((IF B > 890880 THEN B - 890880 ELSE 0) * s) \div 100

\* C4 (as claimed): a successful first inheritance claim, by either instruction,
\* moves exactly floor(max(B - reserve, 0) * s / 100) lamports from the estate to
\* the beneficiary and records that amount in the beneficiary's ClaimRecord.
C4_ClaimTransfersShare ==
    estate.exists =>
        \A c \in Keys : \A i \in Indexes :
            \A r \in {claim_inheritance(c, i), claim_inheritance_v2(c, i)} :
                r.err = "Ok" =>
                    LET x == ExpectedShare(lamports["estate"],
                                           estate.beneficiaries[i + 1].share_percentage)
                    IN  /\ r.st.lamports[c] = lamports[c] + x
                        /\ r.st.lamports["estate"] = lamports["estate"] - x
                        /\ r.st.claim_records[c].exists
                        /\ r.st.claim_records[c].sol_amount = x

Recorded(k, m) ==
    \E j \in 1..Len(claim_records[k].tokens_claimed) :
        claim_records[k].tokens_claimed[j].mint = m

RecordedNFT(k, m) ==
    \E j \in 1..Len(claim_records[k].nfts_claimed) : claim_records[k].nfts_claimed[j] = m

\* The checks that precede the duplicate check pass for beneficiary k at index i.
MayClaimAssets(k, i) ==
    /\ estate.exists /\ estate.is_claimable
    /\ estate_seeds = [owner |-> estate.owner, number |-> estate.estate_number]
    /\ i < Len(estate.beneficiaries)
    /\ estate.beneficiaries[i + 1].address = k
    /\ estate.beneficiaries[i + 1].claimed

\* C5 (as claimed): right after any successful claim_token, the same call by the
\* same beneficiary for the same mint fails with TokenAlreadyClaimed; right after
\* any successful claim_nft, the same call fails with NFTAlreadyClaimed.
C5_RepeatAssetClaimRejected ==
    /\ last.op = "claim_token" =>
           claim_token(last.by, last.by, last.index, last.mint).err = "TokenAlreadyClaimed"
    /\ last.op = "claim_nft" =>
           claim_nft(last.by, last.by, last.index, last.mint).err = "NFTAlreadyClaimed"

\* C5 (amended): a claim_token that transferred a non-zero amount records its mint
\* and a successful claim_nft records its identifier; a recorded identifier stays
\* recorded; while it is recorded every claim_token (claim_nft) by that
\* beneficiary for it fails, with TokenAlreadyClaimed (NFTAlreadyClaimed) when
\* the account, claimable, index, identity and claimed checks pass; an identifier
\* that is not recorded is never rejected as already claimed.
C5_Recorded ==
    /\ (last.op = "claim_token" /\ last.amount > 0) => Recorded(last.by, last.mint)
    /\ last.op = "claim_nft" => RecordedNFT(last.by, last.mint)
    /\ \A k \in Keys, m \in Mints, i \in Indexes :
           LET rt == claim_token(k, k, i, m)
               rn == claim_nft(k, k, i, m)
           IN  /\ Recorded(k, m) =>
                      /\ rt.err # "Ok"
                      /\ MayClaimAssets(k, i) => rt.err = "TokenAlreadyClaimed"
               /\ RecordedNFT(k, m) =>
                      /\ rn.err # "Ok"
                      /\ MayClaimAssets(k, i) => rn.err = "NFTAlreadyClaimed"
               /\ ~Recorded(k, m) => rt.err # "TokenAlreadyClaimed"
               /\ ~RecordedNFT(k, m) => rn.err # "NFTAlreadyClaimed"

\* C5 (amended), for every later call: the statement above holds in every state,
\* and a recorded token mint or NFT identifier is never removed from its record.
C5_RecordedClaimRejected ==
    /\ [](C5_Recorded)
    /\ [][\A k \in Keys, m \in Mints :
            /\ Recorded(k, m) => Recorded(k, m)'
            /\ RecordedNFT(k, m) => RecordedNFT(k, m)']_vars

\* C5 witness: a beneficiary has just received a share of a second, different
\* mint, the first one being recorded.
C5_Witness ==
    /\ last.op = "claim_token"
    /\ last.amount > 0
    /\ Len(claim_records[last.by].tokens_claimed) = 2

\* C6: on a claimable estate close_estate by any caller succeeds, releasing the
\* estate account, exactly when total_claims = total_beneficiaries, and otherwise
\* fails with NotAllClaimed and changes nothing; on an estate that is not
\* claimable it fails with NotClaimable.
C6_CloseIffAllCounted ==
    estate.exists =>
        \A c \in Keys :
            LET r == close_estate(c) IN
            IF ~estate.is_claimable THEN r.err = "NotClaimable" /\ r.st = St
            ELSE /\ (r.err = "Ok") <=> (estate.total_claims = estate.total_beneficiaries)
                 /\ r.err = "Ok" => ~r.st.estate.exists
                 /\ r.err # "Ok" => (r.err = "NotAllClaimed" /\ r.st = St)

\* C6 witness: an estate with a beneficiary who claimed has just been closed.
C6_Witness ==
    /\ last.op = "close_estate"
    /\ ~estate.exists
    /\ \E k \in Keys : claim_records[k].exists

\* C7 (as claimed): whenever close_estate would succeed, every entry of the
\* current beneficiary list has claimed = true.
C7_ClosedOnlyWhenAllClaimed ==
    \A c \in Keys :
        close_estate(c).err = "Ok" =>
            \A k \in 1..Len(estate.beneficiaries) : estate.beneficiaries[k].claimed

\* C8: while the estate and the recovery exist, execute_recovery by any caller
\* fails with RecoveryNotReady strictly before execution_time, which is the
\* initiation time plus 7 days, and succeeds at or after it; once executed,
\* is_executed stays true, and every later execute_recovery fails, with
\* RecoveryAlreadyExecuted, changing nothing.
C8_Timing ==
    recovery.exists =>
        /\ recovery.execution_time = recovery.initiation_time + 7 * 24 * 60 * 60
        /\ \A c \in Keys, a \in Keys :
               LET r == execute_recovery(c, a) IN
               /\ (estate.exists /\ ~recovery.is_executed) =>
                      IF now < recovery.execution_time
                      THEN r.err = "RecoveryNotReady" /\ r.st = St
                      ELSE r.err = "Ok" /\ r.st.recovery.is_executed
               /\ recovery.is_executed =>
                      /\ r.err # "Ok" /\ r.st = St
                      /\ estate.exists => r.err = "RecoveryAlreadyExecuted"

\* C8, for every later call: the timing above holds in every state, and
\* is_executed, once true, stays true.
C8_ExecuteRecoveryTiming ==
    /\ [](C8_Timing)
    /\ [][recovery.is_executed => recovery.is_executed']_vars

\* C8 witness: the recovery has just been executed at its execution time.
C8_Witness ==
    /\ last.op = "execute_recovery"
    /\ recovery.is_executed
    /\ now = recovery.execution_time

\* C9: a successful execute_recovery sets the owner to the recovery address,
\* clears is_claimable and is_locked, empties the beneficiary list with
\* total_beneficiaries = 0 and sets recovery.is_executed; everything else
\* (last_active, the periods, total_claims, total_rwas, estate_number, the other
\* recovery fields, the claim records and every balance) is unchanged.
C9_ExecuteRecoveryFrame ==
    \A c \in Keys, a \in Keys :
        LET r == execute_recovery(c, a) IN
        r.err = "Ok" =>
            /\ r.st.estate = [exists |-> TRUE,
                              owner |-> a,
                              last_active |-> estate.last_active,
                              inactivity_period |-> estate.inactivity_period,
                              grace_period |-> estate.grace_period,
                              beneficiaries |-> <<>>,
                              total_beneficiaries |-> 0,
                              is_locked |-> FALSE,
                              is_claimable |-> FALSE,
                              total_rwas |-> estate.total_rwas,
                              estate_number |-> estate.estate_number,
                              total_claims |-> estate.total_claims]
            /\ r.st.recovery = [exists |-> TRUE,
                                initiator |-> recovery.initiator,
                                initiation_time |-> recovery.initiation_time,
                                execution_time |-> recovery.execution_time,
                                is_executed |-> TRUE]
            /\ r.st.claim_records = claim_records
            /\ r.st.lamports = lamports
            /\ r.st.tokens = tokens
            /\ r.st.global_counter = global_counter
            /\ r.st.rwas = rwas

\* C9 witness: an estate with a claim counted and a claim record has just been
\* recovered.
C9_Witness ==
    /\ last.op = "execute_recovery"
    /\ recovery.is_executed
    /\ estate.owner = "carol"
    /\ estate.total_claims > 0
    /\ estate.beneficiaries = <<>>
    /\ \E k \in Keys : claim_records[k].exists

\* now - last_active - inactivity_period - grace_period
ClaimableFor == now - estate.last_active - estate.inactivity_period - estate.grace_period

\* C10: initiate_recovery succeeds only if the estate is claimable and has been
\* for at least 30 days; the first initiation on a claimable estate succeeds at a
\* difference of exactly 30 days or more and fails with RecoveryTooEarly below
\* it, and on an estate that is not claimable fails with NotClaimable; a success
\* records the initiator, the initiation time, is_executed = false and
\* execution_time = now + 7 days, and changes nothing else.
C10_InitiateRecovery ==
    \A c \in Keys, n \in ReasonLengths :
        LET r == initiate_recovery(c, n) IN
        /\ r.err = "Ok" =>
               /\ estate.exists /\ estate.is_claimable
               /\ ClaimableFor >= 30 * 24 * 60 * 60
               /\ r.st = [St EXCEPT !.recovery =
                              [exists |-> TRUE, initiator |-> c, initiation_time |-> now,
                               execution_time |-> now + 7 * 24 * 60 * 60,
                               is_executed |-> FALSE]]
        /\ (estate.exists /\ ~recovery.exists) =>
               /\ ~estate.is_claimable => r.err = "NotClaimable"
               /\ (estate.is_claimable /\ ClaimableFor < 30 * 24 * 60 * 60) =>
                      r.err = "RecoveryTooEarly"
               /\ (estate.is_claimable /\ ClaimableFor >= 30 * 24 * 60 * 60
                   /\ n <= 256) => r.err = "Ok"
               /\ r.err # "Ok" => r.st = St

\* C10 witness: the recovery has just been initiated exactly 30 days after the
\* estate became eligible.
C10_Witness ==
    /\ last.op = "initiate_recovery"
    /\ recovery.exists /\ ~recovery.is_executed
    /\ recovery.initiation_time - Deadline = 30 * 24 * 60 * 60
    /\ now = recovery.initiation_time

\* C11 (as claimed): a recovery cannot be initiated sooner than 30 days after the
\* successful trigger_inheritance; in particular, at the instant at which
\* trigger_inheritance has just succeeded, no initiate_recovery succeeds.
C11_DwellSinceTrigger ==
    last.op = "trigger_inheritance" =>
        \A c \in Keys, n \in ReasonLengths : initiate_recovery(c, n).err # "Ok"

\* The state a successful check_in at the current instant must produce.
CheckedIn ==
    [St EXCEPT !.estate = [exists |-> TRUE,
                           owner |-> estate.owner,
                           last_active |-> now,
                           inactivity_period |-> estate.inactivity_period,
                           grace_period |-> estate.grace_period,
                           beneficiaries |-> estate.beneficiaries,
                           total_beneficiaries |-> estate.total_beneficiaries,
                           is_locked |-> estate.is_locked,
                           is_claimable |-> FALSE,
                           total_rwas |-> estate.total_rwas,
                           estate_number |-> estate.estate_number,
                           total_claims |-> estate.total_claims]]

\* C12 (as claimed): check_in succeeds only for the owner on an unlocked estate,
\* then sets last_active = now and is_claimable = false and nothing else; it
\* fails with EstateLocked on a locked estate and with UnauthorizedAccess for a
\* caller who is not the owner, changing nothing.
C12_CheckInUnauthorizedAccess ==
    estate.exists =>
        \A c \in Keys :
            LET r == check_in(c) IN
            /\ r.err = "Ok" => (c = estate.owner /\ ~estate.is_locked /\ r.st = CheckedIn)
            /\ r.err # "Ok" => r.st = St
            /\ (c = estate.owner /\ estate.is_locked) => r.err = "EstateLocked"
            /\ (c # estate.owner /\ ~estate.is_locked) => r.err = "UnauthorizedAccess"
            /\ (c # estate.owner /\ estate.is_locked) =>
                   r.err \in {"EstateLocked", "UnauthorizedAccess"}

\* C12 (amended): check_in succeeds exactly for the owner on an unlocked estate,
\* then sets last_active = now and is_claimable = false and nothing else; for the
\* owner on a locked estate it fails with EstateLocked; for any other caller it
\* fails at the has_one = owner constraint of the estate account
\* (ConstraintHasOne), locked or not; a failure changes nothing.
C12_CheckIn ==
    estate.exists =>
        \A c \in Keys :
            LET r == check_in(c) IN
            /\ (r.err = "Ok") <=> (c = estate.owner /\ ~estate.is_locked)
            /\ r.err = "Ok" => r.st = CheckedIn
            /\ r.err # "Ok" => r.st = St
            /\ (c = estate.owner /\ estate.is_locked) => r.err = "EstateLocked"
            /\ c # estate.owner => r.err = "ConstraintHasOne"

\* C12 witness: the owner has just checked in on an estate that holds a
\* beneficiary list and a counted claim.
C12_Witness ==
    /\ last.op = "check_in"
    /\ estate.last_active = now
    /\ ~estate.is_claimable
    /\ estate.total_claims > 0
    /\ estate.beneficiaries # <<>>

\* C13 (as claimed): while is_claimable is true no owner operation clears it: a
\* successful check_in, update_beneficiaries, emergency_lock or emergency_unlock
\* leaves is_claimable true.
C13_OwnerCannotUnclaim ==
    (estate.exists /\ estate.is_claimable) =>
        \A c \in Keys :
            /\ check_in(c).st.estate.is_claimable
            /\ emergency_lock(c).st.estate.is_claimable
            /\ emergency_unlock(c).st.estate.is_claimable
            /\ \A list \in BeneficiaryLists :
                   update_beneficiaries(c, list).st.estate.is_claimable

\* Of the owner operations, only check_in ends the claimable state.
C13_WhileClaimable ==
    (estate.exists /\ estate.is_claimable) =>
        \A c \in Keys :
            /\ emergency_lock(c).st.estate.is_claimable
            /\ emergency_unlock(c).st.estate.is_claimable
            /\ \A list \in BeneficiaryLists :
                   /\ update_beneficiaries(c, list).err # "Ok"
                   /\ update_beneficiaries(c, list).st = St
            /\ \A text \in RwaTexts :
                   create_rwa(c, text).err # "Ok" /\ create_rwa(c, text).st = St
            /\ \A n \in RwaNumbers :
                   delete_rwa(c, n).err # "Ok" /\ delete_rwa(c, n).st = St
            /\ (c = estate.owner /\ ~estate.is_locked) =>
                   (check_in(c).err = "Ok" /\ ~check_in(c).st.estate.is_claimable)
            /\ (c # estate.owner \/ estate.is_locked) =>
                   (check_in(c).err # "Ok" /\ check_in(c).st = St)

\* C13 (amended): once is_claimable is true it stays true until a successful
\* check_in, which the owner can make whenever the estate is not locked, a
\* successful execute_recovery or the closing of the estate; meanwhile
\* update_beneficiaries, create_rwa and delete_rwa fail and emergency_lock and
\* emergency_unlock leave is_claimable true.
C13_ClaimableUntilCheckIn ==
    /\ [](C13_WhileClaimable)
    /\ [][(estate.is_claimable /\ ~estate.is_claimable') =>
              last'.op \in {"check_in", "execute_recovery", "close_estate"}]_vars

\* C13 witness: a check-in has ended a claim phase in which a beneficiary had
\* claimed, without any recovery.
C13_Witness ==
    /\ last.op = "check_in"
    /\ estate.exists /\ ~estate.is_claimable
    /\ ~recovery.exists
    /\ \E k \in 1..Len(estate.beneficiaries) : estate.beneficiaries[k].claimed
    /\ \E k \in Keys : claim_records[k].exists

\* Address a has an entry of the list whose claimed flag is v.
HasFlag(list, a, v) ==
    \E k \in 1..Len(list) : list[k].address = a /\ list[k].claimed = v

\* C14 (as claimed): no successful check_in, update_beneficiaries,
\* claim_inheritance or claim_inheritance_v2 leaves an address that has claimed
\* (its flag is true and its ClaimRecord exists) with an entry whose claimed flag
\* is false.
C14_ClaimedMonotonic ==
    estate.exists =>
        \A c \in Keys, a \in Keys :
            (HasFlag(estate.beneficiaries, a, TRUE) /\ claim_records[a].exists) =>
                /\ ~HasFlag(check_in(c).st.estate.beneficiaries, a, FALSE)
                   \/ HasFlag(estate.beneficiaries, a, FALSE)
                /\ \A i \in Indexes :
                       \/ HasFlag(estate.beneficiaries, a, FALSE)
                       \/ /\ ~HasFlag(claim_inheritance(c, i).st.estate.beneficiaries,
                                      a, FALSE)
                          /\ ~HasFlag(claim_inheritance_v2(c, i).st.estate.beneficiaries,
                                      a, FALSE)
                /\ \A list \in BeneficiaryLists :
                       update_beneficiaries(c, list).err = "Ok" =>
                           ~HasFlag(update_beneficiaries(c, list).st.estate.beneficiaries,
                                    a, FALSE)

\* C15: while is_locked is true, update_beneficiaries, create_rwa, delete_rwa,
\* check_in and trigger_inheritance fail for every caller and every argument and
\* change nothing, claimable or not; the error is EstateLocked whenever the
\* instruction's accounts validate (the owner signs the owner-only ones, the RWA
\* account passed to delete_rwa exists), and for trigger_inheritance always.
C15_LockedRejectsMutation ==
    (estate.exists /\ estate.is_locked) =>
        \A c \in Keys :
            /\ \A list \in BeneficiaryLists :
                   LET r == update_beneficiaries(c, list) IN
                   /\ r.err # "Ok" /\ r.st = St
                   /\ c = estate.owner => r.err = "EstateLocked"
            /\ \A text \in RwaTexts :
                   LET r == create_rwa(c, text) IN
                   /\ r.err # "Ok" /\ r.st = St
                   /\ c = estate.owner => r.err = "EstateLocked"
            /\ \A n \in RwaNumbers :
                   LET r == delete_rwa(c, n) IN
                   /\ r.err # "Ok" /\ r.st = St
                   /\ (c = estate.owner /\ rwas[n].exists) => r.err = "EstateLocked"
            /\ check_in(c).err # "Ok" /\ check_in(c).st = St
            /\ c = estate.owner => check_in(c).err = "EstateLocked"
            /\ trigger_inheritance(c).err = "EstateLocked"
            /\ trigger_inheritance(c).st = St

\* C15 witness: the owner has just locked a claimable estate that holds an
\* active RWA record and a beneficiary list.
C15_Witness ==
    /\ last.op = "emergency_lock"
    /\ estate.is_locked
    /\ rwas[0].exists /\ rwas[0].is_active
    /\ estate.beneficiaries # <<>>
    /\ estate.is_claimable

\* C16 (as claimed): while is_locked is true, claim_inheritance,
\* claim_inheritance_v2, claim_token, claim_nft, transfer_rwa_ownership,
\* close_estate, initiate_recovery and execute_recovery are rejected for every
\* caller and argument, and change nothing.
C16_LockedRejectsEverything ==
    (estate.exists /\ estate.is_locked) =>
        \A c \in Keys :
            /\ close_estate(c).err # "Ok"
            /\ \A n \in ReasonLengths : initiate_recovery(c, n).err # "Ok"
            /\ \A a \in Keys : execute_recovery(c, a).err # "Ok"
            /\ \A i \in Indexes :
                   /\ claim_inheritance(c, i).err # "Ok"
                   /\ claim_inheritance_v2(c, i).err # "Ok"
                   /\ \A m \in Mints :
                          /\ claim_token(c, c, i, m).err # "Ok"
                          /\ claim_nft(c, c, i, m).err # "Ok"
            /\ \A n \in RwaNumbers : transfer_rwa_ownership(c, c, n, n).err # "Ok"

\* The claim record rec passed by caller c validates: it exists and is c's own.
OwnRecord(c, rec) == claim_records[rec].exists /\ claim_records[rec].beneficiary = c

\* The estate account passed validates against the seeds of its address.
SeedsMatch == estate_seeds = [owner |-> estate.owner, number |-> estate.estate_number]

\* While is_claimable is false every claim, transfer and closing fails and changes
\* nothing, with NotClaimable when the accounts of the call validate.
C17_NotClaimable ==
    (estate.exists /\ ~estate.is_claimable) =>
        \A c \in Keys :
            /\ close_estate(c).err = "NotClaimable" /\ close_estate(c).st = St
            /\ \A i \in Indexes :
                   /\ claim_inheritance(c, i).err = "NotClaimable"
                   /\ claim_inheritance(c, i).st = St
                   /\ claim_inheritance_v2(c, i).err # "Ok"
                   /\ claim_inheritance_v2(c, i).st = St
                   /\ ~claim_records[c].exists =>
                          claim_inheritance_v2(c, i).err = "NotClaimable"
                   /\ \A rec \in Keys, m \in Mints :
                          LET rt == claim_token(c, rec, i, m)
                              rn == claim_nft(c, rec, i, m)
                          IN  /\ rt.err # "Ok" /\ rt.st = St
                              /\ rn.err # "Ok" /\ rn.st = St
                              /\ (SeedsMatch /\ OwnRecord(c, rec)) =>
                                     (rt.err = "NotClaimable" /\ rn.err = "NotClaimable")
            /\ \A rec \in Keys, n \in RwaNumbers, number \in RwaNumbers :
                   LET r == transfer_rwa_ownership(c, rec, n, number) IN
                   /\ r.err # "Ok" /\ r.st = St
                   /\ (OwnRecord(c, rec) /\ rwas[n].exists) => r.err = "NotClaimable"

C20_RecoveryAdministratorOnly ==
    \A c \in Keys \ Admins :
        /\ \A n \in ReasonLengths : initiate_recovery(c, n).err # "Ok"
        /\ \A a \in Keys : execute_recovery(c, a).err # "Ok"

\* The results of every instruction other than initialize_global_counter and
\* create_estate, for every signer and argument of the model.
OtherResults ==
    {check_in(c) : c \in Keys}
    \cup {update_beneficiaries(c, l) : c \in Keys, l \in BeneficiaryLists}
    \cup {create_rwa(c, t) : c \in Keys, t \in RwaTexts}
    \cup {delete_rwa(c, n) : c \in Keys, n \in RwaNumbers}
    \cup {trigger_inheritance(c) : c \in Keys}
    \cup {claim_inheritance(c, i) : c \in Keys, i \in Indexes}
    \cup {claim_inheritance_v2(c, i) : c \in Keys, i \in Indexes}
    \cup UNION {{claim_token(c, rec, i, m) : c \in Keys, rec \in Keys} :
                i \in Indexes, m \in Mints}
    \cup UNION {{claim_nft(c, rec, i, m) : c \in Keys, rec \in Keys} :
                i \in Indexes, m \in Mints}
    \cup UNION {{transfer_rwa_ownership(c, rec, n, k) : c \in Keys, rec \in Keys} :
                n \in RwaNumbers, k \in RwaNumbers}
    \cup {close_estate(c) : c \in Keys}
    \cup {emergency_lock(c) : c \in Keys}
    \cup {emergency_unlock(c) : c \in Keys}
    \cup {initiate_recovery(c, n) : c \in Keys, n \in ReasonLengths}
    \cup {execute_recovery(c, a) : c \in Keys, a \in Keys}

\* C21, in each state: the numbers assigned so far are 0, 1, 2, ... in order of
\* creation (strictly increasing, pairwise distinct) and the counter is their
\* count; a create_estate that succeeds gives the estate the counter's value and
\* adds exactly 1 to the counter, one that fails changes nothing; no other
\* instruction changes an initialized counter.
C21_Numbering ==
    /\ global_counter.count = Len(estate_numbers)
    /\ \A k \in 1..Len(estate_numbers) : estate_numbers[k] = k - 1
    /\ \A j \in 1..Len(estate_numbers), k \in 1..Len(estate_numbers) :
           j < k => estate_numbers[j] < estate_numbers[k]
    /\ \A c \in Keys, ip \in PeriodChoices, gp \in PeriodChoices :
           LET r == create_estate(c, ip, gp, MIN_RENT_BALANCE + 101)
           IN  IF r.err = "Ok"
               THEN /\ r.st.estate.estate_number = global_counter.count
                    /\ r.st.global_counter.count = global_counter.count + 1
               ELSE r.st = St
    /\ \A r \in OtherResults : r.st.global_counter = global_counter
    /\ \A c \in Keys :
           LET r == initialize_global_counter(c)
           IN  global_counter.exists => r.err # "Ok" /\ r.st = St

\* C21: the estate_number values of successive successful create_estate calls
\* are strictly increasing and never shared: each is the counter before the call,
\* the counter then grows by exactly 1, and no other step changes the counter.
C21_StrictlyIncreasingNumbers ==
    /\ [](C21_Numbering)
    /\ [][global_counter'.count # global_counter.count =>
              /\ last'.op = "create_estate"
              /\ estate'.estate_number = global_counter.count
              /\ global_counter'.count = global_counter.count + 1
              /\ estate_numbers' = Append(estate_numbers, global_counter.count)]_vars

\* C21 witness: three estates have been created, the owner of the latest has
\* locked it, and a create_estate with too short a period is refused.
C21_Witness ==
    /\ Len(estate_numbers) = MaxEstates
    /\ estate.estate_number = MaxEstates - 1
    /\ estate.is_locked
    /\ create_estate("alice", DAY - 1, DAY, MIN_RENT_BALANCE + 101).err
           = "InvalidInactivityPeriod"

\* C22, in the states right after a successful inheritance claim: the claimant
\* has a ClaimRecord for the estate exactly when an entry of the claimant's
\* address in the estate's current list has its claimed flag set.
C22_RecordIffClaimed ==
    last.op \in {"claim_inheritance", "claim_inheritance_v2"} =>
        (claim_records[last.by].exists <=>
            \E i \in 1..Len(estate.beneficiaries) :
                /\ estate.beneficiaries[i].address = last.by
                /\ estate.beneficiaries[i].claimed)

\* The lamports paid out by claim_inheritance_v2 so far, per the claim records.
RECURSIVE RecordedSol(_)
RecordedSol(ks) ==
    IF ks = {} THEN 0
    ELSE LET k == CHOOSE x \in ks : TRUE
         IN  (IF claim_records[k].exists THEN claim_records[k].sol_amount ELSE 0)
             + RecordedSol(ks \ {k})

\* The estate's native holding when it became claimable, when nothing but claims
\* has changed it since.
HoldingAtTrigger == lamports["estate"] + RecordedSol(Keys)

\* C23, native side: when the estate's balance has changed only through claims,
\* the amount a successful claim_inheritance_v2 pays is floor(share_percentage / 100
\* of the holding at the moment the estate became claimable), counted with or
\* without the rent reserve, whatever the order of the claims.
C23_OrderIndependentShare ==
    (last.op = "claim_inheritance_v2" /\ deposits = 0) =>
        LET share == estate.beneficiaries[last.index + 1].share_percentage
        IN  \/ last.amount = ShareOf(HoldingAtTrigger, share)
            \/ last.amount = ShareOf(SaturatingSub(HoldingAtTrigger, MIN_RENT_BALANCE), share)

\* C24: a successful claim_inheritance_v2 that pays anything leaves the estate
\* with at least MIN_RENT_BALANCE lamports.
C24_ReserveKept ==
    (last.op = "claim_inheritance_v2" /\ last.amount > 0) =>
        lamports["estate"] >= MIN_RENT_BALANCE

\* C25, in each state: once the Recovery record exists, pending or executed,
\* every initiate_recovery fails and changes nothing; once it is executed, every
\* execute_recovery fails and changes nothing.
C25_RecoveryTaken ==
    /\ recovery.exists =>
           \A c \in Keys, n \in ReasonLengths :
               LET r == initiate_recovery(c, n)
               IN  r.err # "Ok" /\ r.st = St
    /\ recovery.is_executed =>
           \A c \in Keys, a \in Keys :
               LET r == execute_recovery(c, a)
               IN  r.err # "Ok" /\ r.st = St

\* C25: at most one Recovery record is created per estate: after a successful
\* initiate_recovery every later one fails, the record keeps its initiator,
\* initiation_time and execution_time for ever, and it is executed at most once
\* (is_executed is set once and never cleared).
C25_OneRecovery ==
    /\ [](C25_RecoveryTaken)
    /\ [][recovery.exists =>
              /\ recovery'.exists
              /\ recovery'.initiator = recovery.initiator
              /\ recovery'.initiation_time = recovery.initiation_time
              /\ recovery'.execution_time = recovery.execution_time
              /\ (recovery.is_executed => recovery'.is_executed)
              /\ (recovery.is_executed => last'.op # "execute_recovery"
                                          \/ last' = last)]_vars

\* C25 witness: the recovery was executed, the estate has since become claimable
\* again and has been so for 30 days, and initiate_recovery is still refused
\* because the Recovery account exists.
C25_Witness ==
    /\ recovery.exists /\ recovery.is_executed
    /\ estate.exists /\ estate.is_claimable
    /\ ClaimableDuration(estate) >= RECOVERY_DWELL
    /\ initiate_recovery("carol", 4).err = "AccountAlreadyInUse"

\* C26 as stated: a second delete_rwa by the owner fails with RWAAlreadyDeleted.
C26_SecondDeleteAlreadyDeleted ==
    \A n \in RwaNumbers :
        (estate.exists /\ rwas[n].exists /\ ~rwas[n].is_active) =>
            delete_rwa(estate.owner, n).err = "RWAAlreadyDeleted"

\* C26, in each state: the RWA records of the estate are numbered 0, 1, ...,
\* total_rwas - 1, each by the number of its address; create_rwa gives the new
\* record the number total_rwas and adds 1 to total_rwas; delete_rwa changes
\* nothing but is_active of the one record; deleting an inactive record fails and
\* changes nothing, with RWAAlreadyDeleted when the owner calls on an estate that
\* is neither locked nor claimable.
C26_Records ==
    /\ \A n \in RwaNumbers :
           /\ rwas[n].exists <=> (estate.exists /\ n < estate.total_rwas)
           /\ rwas[n].exists => rwas[n].rwa_number = n
    /\ \A c \in Keys, t \in RwaTexts :
           LET r == create_rwa(c, t)
           IN  r.err = "Ok" =>
                   r.st = [St EXCEPT
                       !.rwas = [rwas EXCEPT ![estate.total_rwas] =
                           [exists |-> TRUE, is_active |-> TRUE,
                            rwa_number |-> estate.total_rwas,
                            current_owner |-> estate.owner]],
                       !.estate = [estate EXCEPT !.total_rwas = estate.total_rwas + 1]]
    /\ \A c \in Keys, n \in RwaNumbers :
           LET r == delete_rwa(c, n)
           IN  /\ r.err = "Ok" =>
                      r.st = [St EXCEPT !.rwas = [rwas EXCEPT ![n].is_active = FALSE]]
               /\ (rwas[n].exists /\ ~rwas[n].is_active) =>
                      /\ r.err # "Ok" /\ r.st = St
                      /\ (c = estate.owner /\ ~estate.is_locked /\ ~estate.is_claimable)
                             => r.err = "RWAAlreadyDeleted"

\* C26: RWA records are uniquely and consecutively numbered and only
\* soft-deleted: a record, once created, stays with its number; is_active, once
\* false, stays false; total_rwas never decreases.
C26_SoftDeleteUniqueNumbers ==
    /\ [](C26_Records)
    /\ [][/\ \A n \in RwaNumbers :
                 /\ rwas[n].exists =>
                        rwas'[n].exists /\ rwas'[n].rwa_number = rwas[n].rwa_number
                 /\ (rwas[n].exists /\ ~rwas[n].is_active) => ~rwas'[n].is_active
          /\ estate.exists => estate'.total_rwas >= estate.total_rwas]_vars

\* C26 witness: two records numbered 0 and 1 exist, the first was deleted and
\* the second is active, and deleting the first again is refused.
C26_Witness ==
    /\ estate.exists /\ estate.total_rwas = 2
    /\ rwas[0].exists /\ ~rwas[0].is_active /\ rwas[0].rwa_number = 0
    /\ rwas[1].exists /\ rwas[1].is_active /\ rwas[1].rwa_number = 1
    /\ delete_rwa(estate.owner, 0).err = "RWAAlreadyDeleted"

\* C27: a transfer_rwa_ownership that succeeded was called by an address that has
\* an entry in the estate's current beneficiary list with its claimed flag set.
C27_TransferByClaimedBeneficiary ==
    last.op = "transfer_rwa_ownership" =>
        \E i \in 1..Len(estate.beneficiaries) :
            /\ estate.beneficiaries[i].address = last.by
            /\ estate.beneficiaries[i].claimed

\* C28: in every state the estate account's address is the one derived from
\* ESTATE_SEED, the estate's current owner and its estate_number, so that the
\* seeds constraint of claim_token and claim_nft accepts the estate.
C28_AddressFollowsOwner ==
    estate.exists =>
        /\ estate_seeds = [owner |-> estate.owner, number |-> estate.estate_number]
        /\ \A c \in Keys, rec \in Keys, i \in Indexes, m \in Mints :
               /\ claim_token(c, rec, i, m).err # "ConstraintSeeds"
               /\ claim_nft(c, rec, i, m).err # "ConstraintSeeds"

\* C29: while a recovery is pending and the estate is not claimable (the owner
\* has checked in since initiate_recovery), no execute_recovery succeeds.
C29_CheckInCancelsRecovery ==
    (estate.exists /\ recovery.exists /\ ~recovery.is_executed /\ ~estate.is_claimable) =>
        \A c \in Keys, a \in Keys : execute_recovery(c, a).err # "Ok"

\* C30: on an open estate that is not yet claimable, once now is past
\* last_active + inactivity_period + grace_period, trigger_inheritance succeeds for
\* any caller, whatever the value of is_locked.
C30_TriggerEnabledPastDeadline ==
    (estate.exists /\ ~estate.is_claimable /\ now > Deadline) =>
        \A c \in Keys : trigger_inheritance(c).err = "Ok"

\* C31: on a claimable estate, once every listed beneficiary has claimed in the
\* current claim phase (so that no inheritance claim can succeed any more),
\* total_claims equals total_beneficiaries and close_estate succeeds.
C31_AllClaimedCanClose ==
    (/\ estate.exists /\ estate.is_claimable
     /\ Len(estate.beneficiaries) > 0
     /\ phase_claims = 0..(Len(estate.beneficiaries) - 1)
     /\ \A i \in 1..Len(estate.beneficiaries) : estate.beneficiaries[i].claimed) =>
        /\ estate.total_claims = estate.total_beneficiaries
        /\ \A c \in Keys : close_estate(c).err = "Ok"

\* C32, in the states right after a successful inheritance claim: total_claims
\* is the number of entries of the current list whose claimed flag is true, and
\* total_claims <= total_beneficiaries = length of the list.
C32_ClaimsCounted ==
    last.op \in {"claim_inheritance", "claim_inheritance_v2"} =>
        /\ estate.total_claims =
               Cardinality({i \in 1..Len(estate.beneficiaries) :
                               estate.beneficiaries[i].claimed})
        /\ estate.total_claims <= estate.total_beneficiaries
        /\ estate.total_beneficiaries = Len(estate.beneficiaries)

\* C33: right after a successful execute_recovery (the clock has not moved), no
\* trigger_inheritance succeeds: the new owner's inactivity window has just begun.
C33_WindowAfterRecovery ==
    last.op = "execute_recovery" =>
        \A c \in Keys : trigger_inheritance(c).err # "Ok"

\* C34: right after transfer_rwa_ownership has given an RWA to one beneficiary,
\* a transfer_rwa_ownership for the same RWA by a different beneficiary does not
\* change its current_owner.
C34_TransferredOnce ==
    last.op = "transfer_rwa_ownership" =>
        \A c \in Keys, n \in RwaNumbers :
            (rwas[n].exists /\ rwas[n].current_owner = last.by /\ c # last.by) =>
                \A rec \in Keys, k \in RwaNumbers :
                    transfer_rwa_ownership(c, rec, n, k).st.rwas[n].current_owner
                        = rwas[n].current_owner

\* Some beneficiary's ClaimRecord lists the NFT m.
NFTTaken(m) ==
    \E k \in Keys : claim_records[k].exists /\ Mentions(claim_records[k].nfts_claimed, m)

\* C35 as stated: once an NFT has been claimed and the estate holds none of it,
\* every claim_nft for it by a listed beneficiary, for an entry of its own and
\* with its own ClaimRecord, fails with InvalidNFTAmount or NFTAlreadyClaimed.
C35_LaterClaimNamedErrors ==
    \A m \in Mints :
        (NFTTaken(m) /\ tokens["estate"][m] = 0 /\ SeedsMatch) =>
            \A c \in Keys : \A i \in 0..(Len(estate.beneficiaries) - 1) :
                (OwnRecord(c, c) /\ estate.beneficiaries[i + 1].address = c) =>
                    claim_nft(c, c, i, m).err \in {"InvalidNFTAmount", "NFTAlreadyClaimed"}

\* C35, in each state: claim_nft succeeds only when the estate holds exactly 1
\* unit of the identifier, and then moves that unit to the caller, leaving the
\* estate with none; while the estate does not hold exactly 1 unit every claim_nft
\* for the identifier fails and changes nothing, with NFTAlreadyClaimed or
\* InvalidNFTAmount when it passes the checks made before (accounts, claimable,
\* index, caller, claimed).
C35_NFT ==
    \A m \in Mints, c \in Keys, rec \in Keys, i \in Indexes :
        LET r == claim_nft(c, rec, i, m)
        IN  /\ r.err = "Ok" =>
                   /\ tokens["estate"][m] = 1
                   /\ r.st.tokens["estate"][m] = 0
                   /\ r.st.tokens[c][m] = tokens[c][m] + 1
                   /\ \A h \in Holders \ {"estate", c} : r.st.tokens[h] = tokens[h]
            /\ tokens["estate"][m] # 1 =>
                   /\ r.err # "Ok" /\ r.st = St
                   /\ (/\ SeedsMatch /\ OwnRecord(c, rec) /\ estate.is_claimable
                       /\ i < estate.total_beneficiaries
                       /\ estate.beneficiaries[i + 1].address = c
                       /\ estate.beneficiaries[i + 1].claimed) =>
                          r.err \in {"InvalidNFTAmount", "NFTAlreadyClaimed"}

\* C35: each NFT the estate holds goes to at most one beneficiary: every claim_nft
\* that commits takes the estate's only unit, leaving none, and until something is
\* deposited back every later claim_nft for the identifier fails.
C35_OneBeneficiaryPerNFT ==
    /\ [](C35_NFT)
    /\ [][(last'.op = "claim_nft" /\ last' # last) =>
              /\ tokens["estate"][last'.mint] = 1
              /\ tokens'["estate"][last'.mint] = 0
              /\ tokens'[last'.by][last'.mint] = tokens[last'.by][last'.mint] + 1]_vars

\* C35 witness: alice has just received the estate's only unit of an NFT; her own
\* second claim is refused with NFTAlreadyClaimed and bob's, who has claimed his
\* inheritance, with InvalidNFTAmount.
C35_Witness ==
    /\ last.op = "claim_nft" /\ last.by = "alice"
    /\ tokens["estate"][last.mint] = 0 /\ tokens["alice"][last.mint] = 1
    /\ claim_nft("alice", "alice", last.index, last.mint).err = "NFTAlreadyClaimed"
    /\ \E i \in Indexes : claim_nft("bob", "bob", i, last.mint).err = "InvalidNFTAmount"

\* C36: right after a successful update_beneficiaries every entry of the stored
\* list has claimed = false.
C36_StoredUnclaimed ==
    last.op = "update_beneficiaries" =>
        \A i \in 1..Len(estate.beneficiaries) : ~estate.beneficiaries[i].claimed

\* The contributed principal of the joint account.
Principal(j) == j.human_contribution + j.ai_contribution

C38_EmergencyWithdrawalTimeLocked ==
    /\ joint_account.exists =>
           LET h == joint_account.human_owner IN
           /\ ~joint_account.emergency_withdrawal_initiated =>
                  execute_emergency_withdrawal(h).err = "EmergencyWithdrawalNotInitiated"
           /\ (/\ joint_account.emergency_withdrawal_initiated
               /\ now < joint_account.emergency_withdrawal_time) =>
                  execute_emergency_withdrawal(h).err = "EmergencyWithdrawalNotReady"
           /\ joint_account.emergency_withdrawal_initiated =>
                  /\ initiate_emergency_withdrawal(h).err
                         = "EmergencyWithdrawalAlreadyInitiated"
                  /\ initiate_emergency_withdrawal(h).st = JSt
    /\ last.op = "initiate_emergency_withdrawal" =>
           joint_account.emergency_withdrawal_time
               = now + joint_account.emergency_delay_hours * HOUR

\* The transaction that just committed was signed by the estate's owner: the
\* creator of the estate, or the owner checking in.
ByOwner ==
    \/ last'.op = "create_estate" /\ last'.by = estate'.owner
    \/ last'.op = "check_in" /\ last'.by = estate.owner

C40_Supply ==
    \A id \in AppIds :
        LET reg == app_registrations[id] IN
        reg.exists =>
            /\ reg.current_supply <= reg.max_supply
            /\ \A u \in Keys, c \in Keys, t \in Keys :
                   LET r == purchase_app_access(u, id, c, t, "m1") IN
                   PurchaseAppAccessAccounts(u, id) = "Ok" =>
                       /\ ~reg.is_active => r.err = "AppNotActive"
                       /\ (reg.is_active /\ reg.current_supply = reg.max_supply) =>
                              r.err = "MaxSupplyReached"
                       /\ r.err # "Ok" => r.st = ASt
                       /\ r.err = "Ok" =>
                              r.st.app_registrations[id].current_supply
                                  = reg.current_supply + 1

\* C40 (as claimed): a purchase whose accounts validate fails with
\* MaxSupplyReached whenever current_supply equals max_supply, and with
\* AppNotActive whenever the app is inactive.
C40_PurchaseNamedErrors ==
    \A id \in AppIds :
        LET reg == app_registrations[id] IN
        reg.exists =>
            \A u \in Keys, c \in Keys, t \in Keys :
                LET r == purchase_app_access(u, id, c, t, "m1") IN
                PurchaseAppAccessAccounts(u, id) = "Ok" =>
                    /\ reg.current_supply = reg.max_supply => r.err = "MaxSupplyReached"
                    /\ ~reg.is_active => r.err = "AppNotActive"

\* C40: current_supply <= max_supply in every state, with the errors of C40_Supply,
\* and the supply of an app changes only by a committed purchase_app_access of
\* that app, by exactly 1.
C40_SupplyWithinMax ==
    /\ [](C40_Supply)
    /\ [][\A id \in AppIds :
              (/\ app_registrations[id].exists
               /\ app_registrations'[id].current_supply
                      # app_registrations[id].current_supply) =>
                  /\ last'.op = "purchase_app_access" /\ last'.index = id
                  /\ app_registrations'[id].current_supply
                         = app_registrations[id].current_supply + 1]_vars

\* C40 witness: a purchase has just taken the last unit of an app, and the next
\* buyer is refused with MaxSupplyReached.
C40_Witness ==
    \E id \in AppIds :
        /\ last.op = "purchase_app_access" /\ last.index = id
        /\ app_registrations[id].is_active
        /\ app_registrations[id].current_supply = app_registrations[id].max_supply
        /\ \E u \in Buyers :
               purchase_app_access(u, id, app_registrations[id].creator,
                                   app_factory.treasury, "m1").err = "MaxSupplyReached"

====
